---- MODULE Spec2Model ----
(***************************************************************************)
(* Webhook-driven messaging relay (Express app + Messenger API client).    *)
(*                                                                         *)
(* The repository carries three behaviourally distinct definitions of the  *)
(* server:                                                                 *)
(*   "logged"    src/app.js:1-724 (same behaviour: part_001:1979-2994)    *)
(*   "basic"     src/app.js:726-1232                                       *)
(*   "enhanced"  src/unnamed/part_001:1-1976                               *)
(* The variable `variant` says which definition is running.                *)
(*                                                                         *)
(* A handler is modelled at the granularity of the JavaScript event loop:  *)
(* one action runs the handler from one await to the next.  An outbound    *)
(* client call is appended to `calls` when it is issued and stays          *)
(* pending until the network resolves or rejects it.                       *)
(***************************************************************************)
EXTENDS Integers, Sequences, FiniteSets, TLC

VARIABLES
    variant,    \* which definition of the server is running
    conc,       \* number of deliveries the provider keeps in flight at once
    pc,         \* pc[r]: await point of the POST /webhook handler in slot r
    body,       \* body[r]: req.body of the delivery in slot r
    idx,        \* idx[r]: position of the `for (const entry of body.entry)` loop
    failed,     \* failed[r]: steps of the current entry whose call rejected
    resp,       \* resp[r]: HTTP response of the delivery (status 0: none yet)
    calls,      \* outbound client calls issued, in issue order (st: pending/settled)
    timers,     \* pending setTimeout callbacks (enhanced greeting follow-up)
    lastGet,    \* most recent GET /webhook exchange (query and response)
    rest,       \* the REST request being handled: await point, input, response
    inv,        \* invocations of API client operations, in order
    http        \* HTTP requests handed to fetch, in order

vars == <<variant, conc, pc, body, idx, failed, resp, calls, timers, lastGet, rest, inv, http>>

----------------------------------------------------------------------------
(* Bounds of the model *)

MaxEntries == 2     \* entries per delivery

Slots == {1, 2}

Variants == {"logged", "basic", "enhanced"}

----------------------------------------------------------------------------
(* Strings as sequences of characters: String.prototype.toLowerCase and    *)
(* String.prototype.includes                                               *)

Upper == <<"A","B","C","D","E","F","G","H","I","J","K","L","M","N","O","P","Q","R","S","T","U","V","W","X","Y","Z">>
Lower == <<"a","b","c","d","e","f","g","h","i","j","k","l","m","n","o","p","q","r","s","t","u","v","w","x","y","z">>

ToLower == [c \in {Upper[i] : i \in 1..26} |-> Lower[CHOOSE i \in 1..26 : Upper[i] = c]]

lowerChar(c) == IF c \in DOMAIN ToLower THEN ToLower[c] ELSE c

toLowerCase(s) == [i \in 1..Len(s) |-> lowerChar(s[i])]

(* variant of includes that only looks at the start of the string         *)
(* (startsWith)                                                            *)
includesAtStart(s, k) ==
    Len(k) <= Len(s) /\ SubSeq(s, 1, Len(k)) = k

includes(s, k) ==
    \E i \in 1..(Len(s) - Len(k) + 1) : SubSeq(s, i, i + Len(k) - 1) = k

----------------------------------------------------------------------------
(* Keywords of the response rules *)

Kw_hello == <<"h","e","l","l","o">>
Kw_hi == <<"h","i">>
Kw_hey == <<"h","e","y">>
Kw_help == <<"h","e","l","p">>
Kw_support == <<"s","u","p","p","o","r","t">>
Kw_button == <<"b","u","t","t","o","n">>
Kw_template == <<"t","e","m","p","l","a","t","e">>
Kw_list == <<"l","i","s","t">>
Kw_menu == <<"m","e","n","u">>
Kw_generic == <<"g","e","n","e","r","i","c">>
Kw_cards == <<"c","a","r","d","s">>
Kw_insights == <<"i","n","s","i","g","h","t","s">>
Kw_analytics == <<"a","n","a","l","y","t","i","c","s">>
Kw_reaction == <<"r","e","a","c","t","i","o","n">>
Kw_emoji == <<"e","m","o","j","i">>
Kw_notification == <<"n","o","t","i","f","i","c","a","t","i","o","n">>
Kw_alert == <<"a","l","e","r","t">>
Kw_version == <<"v","e","r","s","i","o","n">>
Kw_api == <<"a","p","i">>

(* Inbound message texts the model delivers *)

T_Hi == <<"H","i">>
T_HELLO == <<"H","E","L","L","O">>
T_this == <<"t","h","i","s">>
T_help == <<"h","e","l","p">>
T_Help_hi == <<"H","e","l","p"," ","h","i">>
T_button_help == <<"b","u","t","t","o","n"," ","h","e","l","p">>
T_Button == <<"B","u","t","t","o","n">>
T_ok == <<"o","k">>
T_hey == <<"h","e","y">>
T_menu_button == <<"m","e","n","u"," ","b","u","t","t","o","n">>
T_list == <<"l","i","s","t">>
T_cards == <<"c","a","r","d","s">>
T_insights == <<"i","n","s","i","g","h","t","s">>
T_emoji == <<"e","m","o","j","i">>
T_alert == <<"a","l","e","r","t">>
T_api == <<"a","p","i">>
T_support == <<"s","u","p","p","o","r","t">>

Texts == {T_Hi, T_HELLO, T_this, T_help, T_Help_hi, T_button_help, T_Button, T_ok, T_hey, T_menu_button, T_list, T_cards, T_insights, T_emoji, T_alert, T_api, T_support}

----------------------------------------------------------------------------
(* Reply texts, written without their emoji; a text that runs over        *)
(* several lines or carries a template is cut to its first words          *)

GreetingText == "Hello! How can I help you today?"
GreetingTextEnhanced == "Hello! Welcome to our enhanced Messenger bot powered by API v23.0! How can I help you today?"
HelpText == "Here are some options to help you:"
ButtonText == "Check out these resources:"
ButtonTextEnhanced == "Check out these resources powered by Messenger API v23.0:"
ListText == "list template: Getting Started, Documentation, Support"
GenericText == "generic template: Feature 1, Feature 2"
InsightsText == "Here are your page insights:"
InsightsSorryText == "Sorry, I couldn't retrieve the insights at the moment."
ReactionText == "Here are some reactions you can use:"
NotificationText == "This is a one-time notification from our enhanced bot!"
NotificationSorryText == "Sorry, I couldn't send the notification at the moment."
VersionText == "Our bot is powered by: Facebook Messenger Platform API v23.0"
DefaultText == "Thanks for your message! I'm here to help."
DefaultTextEnhanced == "Thanks for your message! I'm an enhanced bot powered by Messenger API v23.0."
ErrorText == "Sorry, I encountered an error. Please try again."
ErrorTextEnhanced == "Sorry, I encountered an error while processing your message. Please try again or say \"help\" for assistance."
FollowUpText == "Choose an option to continue:"
ImageText == "Thanks for sharing that image! I can see it clearly."
VideoText == "Great video! Thanks for sharing."
AudioText == "I can hear your audio message!"
FileText == "I received your file!"
AttachmentText == "Thanks for sharing that attachment!"
UnknownText == "I received your message but I'm not sure how to process it."
InstagramGreetingText == "Hello from Instagram!"
InstagramDefaultText == "Thanks for reaching out on Instagram!"

----------------------------------------------------------------------------
(* Response selection: the if / else-if chain of processMessage over the   *)
(* lower-cased text.  The result names the branch taken.                   *)

(* variant of selectBasic that tests the help rule before the greeting    *)
selectBasicHelpFirst(text) ==
    IF includes(text, Kw_help) THEN "help"
    ELSE IF includes(text, Kw_hello) \/ includes(text, Kw_hi) THEN "greeting"
    ELSE IF includes(text, Kw_button) THEN "button"
    ELSE "default"

(* variant of selectBasic whose last else branch is missing: the chain    *)
(* ends in the button rule                                                *)
selectBasicNoDefault(text) ==
    IF includes(text, Kw_hello) \/ includes(text, Kw_hi) THEN "greeting"
    ELSE IF includes(text, Kw_help) THEN "help"
    ELSE "button"

selectBasic(text) ==
    IF includes(text, Kw_hello) \/ includes(text, Kw_hi) THEN "greeting"
    ELSE IF includes(text, Kw_help) THEN "help"
    ELSE IF includes(text, Kw_button) THEN "button"
    ELSE "default"

selectEnhanced(text) ==
    IF includes(text, Kw_hello) \/ includes(text, Kw_hi) \/ includes(text, Kw_hey) THEN "greeting"
    ELSE IF includes(text, Kw_help) \/ includes(text, Kw_support) THEN "help"
    ELSE IF includes(text, Kw_button) \/ includes(text, Kw_template) THEN "button"
    ELSE IF includes(text, Kw_list) \/ includes(text, Kw_menu) THEN "list"
    ELSE IF includes(text, Kw_generic) \/ includes(text, Kw_cards) THEN "generic"
    ELSE IF includes(text, Kw_insights) \/ includes(text, Kw_analytics) THEN "insights"
    ELSE IF includes(text, Kw_reaction) \/ includes(text, Kw_emoji) THEN "reaction"
    ELSE IF includes(text, Kw_notification) \/ includes(text, Kw_alert) THEN "notification"
    ELSE IF includes(text, Kw_version) \/ includes(text, Kw_api) THEN "version"
    ELSE "default"

selectRule(v, rawText) ==
    IF v = "enhanced" THEN selectEnhanced(toLowerCase(rawText))
    ELSE selectBasic(toLowerCase(rawText))

selectInstagram(rawText) ==
    IF includes(toLowerCase(rawText), Kw_hello) \/ includes(toLowerCase(rawText), Kw_hi)
    THEN "greeting"
    ELSE "default"

(* The client operation and the text each branch sends first *)
ruleOp(v, rule) ==
    CASE rule = "help" -> "sendQuickReply"
      [] rule = "button" -> "sendButtonTemplate"
      [] rule = "list" -> "sendListTemplate"
      [] rule = "generic" -> "sendGenericTemplate"
      [] rule = "insights" -> "getPageInsights"
      [] rule = "notification" -> "sendOneTimeNotification"
      [] OTHER -> "sendTextMessage"

ruleText(v, rule) ==
    CASE rule = "greeting" -> IF v = "enhanced" THEN GreetingTextEnhanced ELSE GreetingText
      [] rule = "help" -> HelpText
      [] rule = "button" -> IF v = "enhanced" THEN ButtonTextEnhanced ELSE ButtonText
      [] rule = "list" -> ListText
      [] rule = "generic" -> GenericText
      [] rule = "insights" -> "messages_received,messages_sent"
      [] rule = "reaction" -> ReactionText
      [] rule = "notification" -> NotificationText
      [] rule = "version" -> VersionText
      [] OTHER -> IF v = "enhanced" THEN DefaultTextEnhanced ELSE DefaultText

(* The await point a branch stops at after issuing its first call *)
rulePc(rule) ==
    CASE rule = "insights" -> "insightsGet"
      [] rule = "notification" -> "notify"
      [] OTHER -> "reply"

errorText(v) == IF v = "enhanced" THEN ErrorTextEnhanced ELSE ErrorText

(* Attachment branch of the enhanced processMessage *)
attachmentText(types) ==
    IF \E i \in 1..Len(types) : types[i] = "image" THEN ImageText
    ELSE IF \E i \in 1..Len(types) : types[i] = "video" THEN VideoText
    ELSE IF \E i \in 1..Len(types) : types[i] = "audio" THEN AudioText
    ELSE IF \E i \in 1..Len(types) : types[i] = "file" THEN FileText
    ELSE AttachmentText

----------------------------------------------------------------------------
(* Webhook payloads.  A JavaScript value that may be missing is a record   *)
(* with a presence flag, so that a missing list and an empty list differ.  *)

NullMsg == [isNull |-> TRUE, text |-> <<>>, hasAtt |-> FALSE, att |-> <<>>]
EmptyMsg == [isNull |-> FALSE, text |-> <<>>, hasAtt |-> FALSE, att |-> <<>>]
TextMsg(t) == [isNull |-> FALSE, text |-> t, hasAtt |-> FALSE, att |-> <<>>]
AttMsg(a) == [isNull |-> FALSE, text |-> <<>>, hasAtt |-> TRUE, att |-> a]
TextAttMsg(t, a) == [isNull |-> FALSE, text |-> t, hasAtt |-> TRUE, att |-> a]

Ev(s, m) == [hasSender |-> TRUE, sender |-> s, message |-> m]
NoSenderEv == [hasSender |-> FALSE, sender |-> 0, message |-> TextMsg(T_Hi)]

Entry(evs) == [hasMessaging |-> TRUE, messaging |-> evs]
NoMessagingEntry == [hasMessaging |-> FALSE, messaging |-> <<>>]

Body(o, es) == [object |-> o, hasEntry |-> TRUE, entry |-> es]
NoEntryBody(o) == [object |-> o, hasEntry |-> FALSE, entry |-> <<>>]
NoBody == NoEntryBody("")

AttLists == {<<"image">>, <<"video", "image">>, <<"audio">>, <<"file", "audio">>, <<"location">>, <<>>}

Messages ==
    {NullMsg, EmptyMsg} \cup {TextMsg(t) : t \in Texts} \cup {AttMsg(a) : a \in AttLists}
    \cup {TextAttMsg(T_ok, <<"image">>), TextAttMsg(T_help, <<"video">>)}

(* A later event of an entry, from another sender *)
LaterEv == Ev(43, TextMsg(T_help))

(* Entries of single-entry deliveries: every message shape *)
RichEntries ==
    {Entry(<<Ev(42, m)>>) : m \in Messages}
    \cup {Entry(<<Ev(42, m), LaterEv>>) : m \in Messages}
    \cup {Entry(<<NoSenderEv>>), Entry(<<NoSenderEv, LaterEv>>)}

(* Entries of multi-entry deliveries *)
SmallEntries ==
    { NoMessagingEntry,
      Entry(<<>>),
      Entry(<<Ev(42, TextMsg(T_Hi))>>),
      Entry(<<Ev(42, TextMsg(T_ok)), LaterEv>>),
      Entry(<<Ev(43, NullMsg)>>) }

SeqsUpTo(S, n) == UNION {[1..k -> S] : k \in 0..n}

Objects == {"page", "instagram", "user"}

Bodies ==
    {NoEntryBody(o) : o \in Objects}
    \cup {Body(o, <<e>>) : o \in Objects, e \in RichEntries}
    \cup {Body(o, es) : o \in Objects, es \in SeqsUpTo(SmallEntries, MaxEntries)}

----------------------------------------------------------------------------
(* Outbound client calls (src/messenger.js) *)

Call(r, client, op, to, payload, k, step) ==
    [req |-> r, client |-> client, op |-> op, to |-> to, payload |-> payload,
     entry |-> k, step |-> step, st |-> "pending"]

markAsSeen(r, userId, k) ==
    Call(r, "messenger", "markAsSeen", userId, "mark_seen", k, "seen")

sendTypingIndicator(r, userId, typing, k) ==
    Call(r, "messenger", "sendTypingIndicator", userId,
         IF typing THEN "typing_on" ELSE "typing_off", k,
         IF typing THEN "typingOn" ELSE "typingOff")

(* variant of sendTextMessage in which every text goes out through the    *)
(* Messenger client                                                       *)
sendTextMessageViaMessenger(r, client, userId, message, k, step) ==
    Call(r, "messenger", "sendTextMessage", userId, message, k, step)

sendTextMessage(r, client, userId, message, k, step) ==
    Call(r, client, "sendTextMessage", userId, message, k, step)

(* What a handler does between two awaits: where it stops, the response it *)
(* sends (status 0: none), the call it issues, the timer it sets.          *)
Eff(p, k, status, issue, sched, fresh) ==
    [pc |-> p, idx |-> k, status |-> status, issue |-> issue, sched |-> sched, fresh |-> fresh]

Respond(k, status) == Eff("done", k, status, <<>>, {}, FALSE)

(* res.status(200).send('EVENT_RECEIVED') and res.sendStatus(n) *)
Response(status) ==
    [status |-> status,
     body |-> CASE status = 200 -> "EVENT_RECEIVED"
                [] status = 404 -> "Not Found"
                [] status = 500 -> "Internal Server Error"
                [] OTHER -> ""]

NoResponse == [status |-> 0, body |-> ""]

----------------------------------------------------------------------------
(* GET /webhook: the verification handshake *)

VERIFY_TOKEN == "your_webhook_verify_token_here"

Opt(S) == {[has |-> FALSE, v |-> ""]} \cup {[has |-> TRUE, v |-> x] : x \in S}

Queries ==
    [mode : Opt({"", "subscribe", "unsubscribe"}),
     token : Opt({"", VERIFY_TOKEN, "WRONG"}),
     challenge : Opt({"1158201444"})]

(* JavaScript truthiness of a query value: present and not the empty string *)
truthy(x) == x.has /\ x.v # ""

(* variant of verifyStatus that forgets to compare the mode *)
verifyStatusAnyMode(q) ==
    IF truthy(q.mode) /\ truthy(q.token)
    THEN IF q.token.v = VERIFY_TOKEN THEN 200 ELSE 403
    ELSE 400

verifyStatus(q) ==
    IF truthy(q.mode) /\ truthy(q.token)
    THEN IF q.mode.v = "subscribe" /\ q.token.v = VERIFY_TOKEN THEN 200 ELSE 403
    ELSE 400

verifyResponse(q) ==
    [status |-> verifyStatus(q),
     body |-> CASE verifyStatus(q) = 200 -> q.challenge.v
                [] verifyStatus(q) = 403 -> "Forbidden"
                [] OTHER -> "Bad Request"]

NoGet == [has |-> FALSE, q |-> [mode |-> [has |-> FALSE, v |-> ""], token |-> [has |-> FALSE, v |-> ""], challenge |-> [has |-> FALSE, v |-> ""]], resp |-> NoResponse]

(* variant of webhookGet in which a successful handshake is remembered    *)
(* and answered only once                                                 *)
webhookGetOnce(q) ==
    /\ lastGet' = [has |-> TRUE, q |-> q,
                   resp |-> IF lastGet.has /\ lastGet.resp.status = 200
                            THEN [status |-> 403, body |-> "Forbidden"]
                            ELSE verifyResponse(q)]
    /\ UNCHANGED <<variant, conc, pc, body, idx, failed, resp, calls, timers, rest, inv, http>>

webhookGet(q) ==
    /\ lastGet' = [has |-> TRUE, q |-> q, resp |-> verifyResponse(q)]
    /\ UNCHANGED <<variant, conc, pc, body, idx, failed, resp, calls, timers, rest, inv, http>>

----------------------------------------------------------------------------
(* POST /webhook, page branch *)

(* try/catch around markAsSeen and sendTypingIndicator: present in the     *)
(* logged and enhanced definitions, absent in the basic one                *)
swallows(v) == v # "basic"

(* variant of firstEvent that takes the last event of the entry *)
lastEvent(entry) == entry.messaging[Len(entry.messaging)]

(* const webhookEvent = entry.messaging[0] *)
firstEvent(entry) == entry.messaging[1]

typingOffEff(r, senderId, k) ==
    Eff("typingOff", k, 0, <<sendTypingIndicator(r, senderId, FALSE, k)>>, {}, FALSE)

fallbackEff(v, r, senderId, k) ==
    Eff("fallback", k, 0,
        <<sendTextMessage(r, "messenger", senderId, errorText(v), k, "fallback")>>, {}, FALSE)

(* variant of processMessage that remembers having greeted: once a         *)
(* greeting has been sent to some sender, a greeting text gets the default *)
(* reply                                                                   *)
processMessageGreetOnce(v, r, senderId, message, k) ==
    IF message.isNull
    THEN fallbackEff(v, r, senderId, k)
    ELSE IF message.text # <<>>
    THEN LET greeted == \E i \in 1..Len(calls) : calls[i].payload = ruleText(v, "greeting")
             rule == IF greeted /\ selectRule(v, message.text) = "greeting"
                     THEN "default" ELSE selectRule(v, message.text)
         IN  Eff(rulePc(rule), k, 0,
                 <<Call(r, "messenger", ruleOp(v, rule),
                        IF rule = "insights" THEN 0 ELSE senderId,
                        ruleText(v, rule), k, rulePc(rule))>>, {}, FALSE)
    ELSE IF v = "enhanced"
    THEN Eff("reply", k, 0,
             <<sendTextMessage(r, "messenger", senderId,
                               IF message.hasAtt THEN attachmentText(message.att) ELSE UnknownText,
                               k, "reply")>>, {}, FALSE)
    ELSE typingOffEff(r, senderId, k)

(* variant of processMessage that passes over an event without a message *)
processMessageSkipsNull(v, r, senderId, message, k) ==
    IF message.isNull
    THEN typingOffEff(r, senderId, k)
    ELSE IF message.text # <<>>
    THEN Eff(rulePc(selectRule(v, message.text)), k, 0,
             <<Call(r, "messenger", ruleOp(v, selectRule(v, message.text)),
                    IF selectRule(v, message.text) = "insights" THEN 0 ELSE senderId,
                    ruleText(v, selectRule(v, message.text)), k,
                    rulePc(selectRule(v, message.text)))>>, {}, FALSE)
    ELSE IF v = "enhanced"
    THEN Eff("reply", k, 0,
             <<sendTextMessage(r, "messenger", senderId,
                               IF message.hasAtt THEN attachmentText(message.att) ELSE UnknownText,
                               k, "reply")>>, {}, FALSE)
    ELSE typingOffEff(r, senderId, k)

(* processMessage from its start to its first await *)
processMessage(v, r, senderId, message, k) ==
    IF message.isNull
    THEN fallbackEff(v, r, senderId, k)
    ELSE IF message.text # <<>>
    THEN Eff(rulePc(selectRule(v, message.text)), k, 0,
             <<Call(r, "messenger", ruleOp(v, selectRule(v, message.text)),
                    IF selectRule(v, message.text) = "insights" THEN 0 ELSE senderId,
                    ruleText(v, selectRule(v, message.text)), k,
                    rulePc(selectRule(v, message.text)))>>, {}, FALSE)
    ELSE IF v = "enhanced"
    THEN Eff("reply", k, 0,
             <<sendTextMessage(r, "messenger", senderId,
                               IF message.hasAtt THEN attachmentText(message.att) ELSE UnknownText,
                               k, "reply")>>, {}, FALSE)
    ELSE typingOffEff(r, senderId, k)

RECURSIVE pageLoop(_, _, _)

(* variant of pageLoop that treats an entry without events as an error *)
pageLoopStrict(r, b, k) ==
    IF k > Len(b.entry) THEN Respond(k, 200)
    ELSE IF ~b.entry[k].hasMessaging THEN Respond(k, 500)
    ELSE IF Len(b.entry[k].messaging) = 0 THEN Respond(k, 500)
    ELSE IF ~firstEvent(b.entry[k]).hasSender THEN Respond(k, 500)
    ELSE Eff("seen", k, 0, <<markAsSeen(r, firstEvent(b.entry[k]).sender, k)>>, {}, TRUE)

(* the for-of loop over body.entry, from entry k to the next await *)
pageLoop(r, b, k) ==
    IF k > Len(b.entry) THEN Respond(k, 200)
    ELSE IF ~b.entry[k].hasMessaging THEN Respond(k, 500)
    ELSE IF Len(b.entry[k].messaging) = 0 THEN pageLoop(r, b, k + 1)
    ELSE IF ~firstEvent(b.entry[k]).hasSender THEN Respond(k, 500)
    ELSE Eff("seen", k, 0, <<markAsSeen(r, firstEvent(b.entry[k]).sender, k)>>, {}, TRUE)

(* variant of afterSeen that goes on to processMessage without the       *)
(* typing-on call                                                         *)
afterSeenNoTyping(v, r, b, k, ok) ==
    IF ok \/ swallows(v)
    THEN processMessage(v, r, firstEvent(b.entry[k]).sender, firstEvent(b.entry[k]).message, k)
    ELSE Respond(k, 500)

afterSeen(v, r, b, k, ok) ==
    IF ok \/ swallows(v)
    THEN Eff("typingOn", k, 0,
             <<sendTypingIndicator(r, firstEvent(b.entry[k]).sender, TRUE, k)>>, {}, FALSE)
    ELSE Respond(k, 500)

afterTypingOn(v, r, b, k, ok) ==
    IF ok \/ swallows(v)
    THEN processMessage(v, r, firstEvent(b.entry[k]).sender, firstEvent(b.entry[k]).message, k)
    ELSE Respond(k, 500)

(* variant of followUp that schedules the follow-up after every text reply *)
(* of every server definition                                              *)
followUpAlways(v, r, b, k) ==
    IF firstEvent(b.entry[k]).message.text # <<>>
    THEN {[req |-> r, to |-> firstEvent(b.entry[k]).sender, entry |-> k]}
    ELSE {}

(* setTimeout(..., 1000) after the greeting of the enhanced definition *)
followUp(v, r, b, k) ==
    IF /\ v = "enhanced"
       /\ firstEvent(b.entry[k]).message.text # <<>>
       /\ selectRule(v, firstEvent(b.entry[k]).message.text) = "greeting"
    THEN {[req |-> r, to |-> firstEvent(b.entry[k]).sender, entry |-> k]}
    ELSE {}

(* continuation of processMessage after the call awaited at `step` settled *)
afterReply(v, r, b, k, step, ok) ==
    LET senderId == firstEvent(b.entry[k]).sender
        send(text, p) == Eff(p, k, 0, <<sendTextMessage(r, "messenger", senderId, text, k, p)>>, {}, FALSE)
    IN  CASE step = "reply" ->
                IF ok
                THEN [typingOffEff(r, senderId, k) EXCEPT !.sched = followUp(v, r, b, k)]
                ELSE fallbackEff(v, r, senderId, k)
          [] step = "insightsGet" ->
                IF ok THEN send(InsightsText, "insightsSend")
                ELSE send(InsightsSorryText, "insightsSorry")
          [] step = "insightsSend" ->
                IF ok THEN typingOffEff(r, senderId, k)
                ELSE send(InsightsSorryText, "insightsSorry")
          [] step = "notify" ->
                IF ok THEN typingOffEff(r, senderId, k)
                ELSE send(NotificationSorryText, "notifySorry")
          [] OTHER ->
                IF ok THEN typingOffEff(r, senderId, k)
                ELSE fallbackEff(v, r, senderId, k)

(* the catch block of processMessage after its fallback send settled *)
afterFallback(v, r, b, k, ok) ==
    IF ok \/ swallows(v)
    THEN typingOffEff(r, firstEvent(b.entry[k]).sender, k)
    ELSE Respond(k, 500)

afterTypingOff(v, r, b, k, ok) ==
    IF ok \/ swallows(v) THEN pageLoop(r, b, k + 1) ELSE Respond(k, 500)

----------------------------------------------------------------------------
(* POST /webhook, instagram branch *)

RECURSIVE instagramLoop(_, _, _)

(* variant of instagramLoop that passes over an entry without a messaging *)
(* list instead of failing on it                                          *)
instagramLoopLenient(r, b, k) ==
    IF k > Len(b.entry) THEN Respond(k, 200)
    ELSE IF ~b.entry[k].hasMessaging THEN instagramLoop(r, b, k + 1)
    ELSE IF Len(b.entry[k].messaging) = 0 THEN instagramLoop(r, b, k + 1)
    ELSE IF ~firstEvent(b.entry[k]).hasSender THEN Respond(k, 500)
    ELSE IF firstEvent(b.entry[k]).message.isNull \/ firstEvent(b.entry[k]).message.text = <<>>
    THEN instagramLoop(r, b, k + 1)
    ELSE Eff("igReply", k, 0,
             <<sendTextMessage(r, "instagram", firstEvent(b.entry[k]).sender,
                   IF selectInstagram(firstEvent(b.entry[k]).message.text) = "greeting"
                   THEN InstagramGreetingText ELSE InstagramDefaultText,
                   k, "igReply")>>, {}, TRUE)

instagramLoop(r, b, k) ==
    IF k > Len(b.entry) THEN Respond(k, 200)
    ELSE IF ~b.entry[k].hasMessaging THEN Respond(k, 500)
    ELSE IF Len(b.entry[k].messaging) = 0 THEN instagramLoop(r, b, k + 1)
    ELSE IF ~firstEvent(b.entry[k]).hasSender THEN Respond(k, 500)
    ELSE IF firstEvent(b.entry[k]).message.isNull \/ firstEvent(b.entry[k]).message.text = <<>>
    THEN instagramLoop(r, b, k + 1)
    ELSE Eff("igReply", k, 0,
             <<sendTextMessage(r, "instagram", firstEvent(b.entry[k]).sender,
                   IF selectInstagram(firstEvent(b.entry[k]).message.text) = "greeting"
                   THEN InstagramGreetingText ELSE InstagramDefaultText,
                   k, "igReply")>>, {}, TRUE)

(* variant of afterInstagramReply that answers 200 after every entry *)
afterInstagramReplyAnswersEach(v, r, b, k, ok) ==
    [instagramLoop(r, b, k + 1) EXCEPT !.status = 200]

afterInstagramReply(v, r, b, k, ok) == instagramLoop(r, b, k + 1)

(* variant of webhookStart that takes every object but "instagram" for a  *)
(* page delivery                                                          *)
webhookStartPageByDefault(r, b) ==
    IF b.object = "instagram"
    THEN IF b.hasEntry THEN instagramLoop(r, b, 1) ELSE Respond(1, 500)
    ELSE IF b.hasEntry THEN pageLoop(r, b, 1) ELSE Respond(1, 500)

(* the handler from its entry to its first await *)
webhookStart(r, b) ==
    IF b.object = "page"
    THEN IF b.hasEntry THEN pageLoop(r, b, 1) ELSE Respond(1, 500)
    ELSE IF b.object = "instagram"
    THEN IF b.hasEntry THEN instagramLoop(r, b, 1) ELSE Respond(1, 500)
    ELSE Respond(0, 404)

----------------------------------------------------------------------------
(* Actions *)

settle(i) == [calls EXCEPT ![i].st = "settled"]

(* The handler of slot r runs on: the call at index i (0: none) settles,   *)
(* the handler proceeds as `e` says.                                       *)
Apply(r, i, ok, e) ==
    /\ pc' = [pc EXCEPT ![r] = e.pc]
    /\ idx' = [idx EXCEPT ![r] = e.idx]
    /\ resp' = [resp EXCEPT ![r] = IF e.status = 0 THEN @ ELSE Response(e.status)]
    /\ failed' = [failed EXCEPT ![r] =
                    IF e.fresh THEN {}
                    ELSE IF i # 0 /\ ~ok THEN @ \cup {calls[i].step} ELSE @]
    /\ calls' = (IF i = 0 THEN calls ELSE settle(i)) \o e.issue
    /\ timers' = timers \cup e.sched

Quiescent(r) ==
    /\ pc[r] = "done"
    /\ \A i \in 1..Len(calls) : calls[i].req = r => calls[i].st = "settled"
    /\ \A t \in timers : t.req # r

(* app.post('/webhook'): a delivery arrives in slot r *)
webhookPost(r, b) ==
    /\ r <= conc
    /\ pc[r] = "idle"
    /\ body' = [body EXCEPT ![r] = b]
    /\ LET e == webhookStart(r, b)
       IN  /\ pc' = [pc EXCEPT ![r] = e.pc]
           /\ idx' = [idx EXCEPT ![r] = e.idx]
           /\ resp' = [resp EXCEPT ![r] =
                         IF e.status = 0 THEN NoResponse ELSE Response(e.status)]
           /\ calls' = calls \o e.issue
    /\ failed' = [failed EXCEPT ![r] = {}]
    /\ UNCHANGED <<variant, conc, timers, lastGet, rest, inv, http>>

(* the handler has returned, its response is written and nothing it        *)
(* started is left: the request and what was recorded of it are dropped    *)
requestEnd(r) ==
    /\ Quiescent(r)
    /\ pc' = [pc EXCEPT ![r] = "idle"]
    /\ body' = [body EXCEPT ![r] = NoBody]
    /\ idx' = [idx EXCEPT ![r] = 0]
    /\ failed' = [failed EXCEPT ![r] = {}]
    /\ resp' = [resp EXCEPT ![r] = NoResponse]
    /\ calls' = SelectSeq(calls, LAMBDA c : c.req # r)
    /\ UNCHANGED <<variant, conc, timers, lastGet, rest, inv, http>>

Pending(i, steps) ==
    /\ calls[i].st = "pending"
    /\ calls[i].step \in steps
    /\ pc[calls[i].req] = calls[i].step

SettleSeen(i, ok) ==
    /\ Pending(i, {"seen"})
    /\ Apply(calls[i].req, i, ok,
             afterSeen(variant, calls[i].req, body[calls[i].req], calls[i].entry, ok))
    /\ UNCHANGED <<variant, conc, body, lastGet, rest, inv, http>>

(* variant of SettleTypingOn in which the handler reads the message from a *)
(* variable the handlers share, which holds the delivery of slot 1 once    *)
(* that has arrived                                                        *)
SettleTypingOnSharedBody(i, ok) ==
    /\ Pending(i, {"typingOn"})
    /\ Apply(calls[i].req, i, ok,
             afterTypingOn(variant, calls[i].req,
                           IF pc[1] = "idle" THEN body[calls[i].req] ELSE body[1],
                           calls[i].entry, ok))
    /\ UNCHANGED <<variant, conc, body, lastGet, rest, inv, http>>

SettleTypingOn(i, ok) ==
    /\ Pending(i, {"typingOn"})
    /\ Apply(calls[i].req, i, ok,
             afterTypingOn(variant, calls[i].req, body[calls[i].req], calls[i].entry, ok))
    /\ UNCHANGED <<variant, conc, body, lastGet, rest, inv, http>>

SettleReply(i, ok) ==
    /\ Pending(i, {"reply", "insightsGet", "insightsSend", "insightsSorry", "notify", "notifySorry"})
    /\ Apply(calls[i].req, i, ok,
             afterReply(variant, calls[i].req, body[calls[i].req], calls[i].entry, calls[i].step, ok))
    /\ UNCHANGED <<variant, conc, body, lastGet, rest, inv, http>>

SettleFallback(i, ok) ==
    /\ Pending(i, {"fallback"})
    /\ Apply(calls[i].req, i, ok,
             afterFallback(variant, calls[i].req, body[calls[i].req], calls[i].entry, ok))
    /\ UNCHANGED <<variant, conc, body, lastGet, rest, inv, http>>

SettleTypingOff(i, ok) ==
    /\ Pending(i, {"typingOff"})
    /\ Apply(calls[i].req, i, ok,
             afterTypingOff(variant, calls[i].req, body[calls[i].req], calls[i].entry, ok))
    /\ UNCHANGED <<variant, conc, body, lastGet, rest, inv, http>>

SettleInstagramReply(i, ok) ==
    /\ Pending(i, {"igReply"})
    /\ Apply(calls[i].req, i, ok,
             afterInstagramReply(variant, calls[i].req, body[calls[i].req], calls[i].entry, ok))
    /\ UNCHANGED <<variant, conc, body, lastGet, rest, inv, http>>

(* the setTimeout callback runs: it issues the follow-up quick replies *)
TimerFire(t) ==
    /\ t \in timers
    /\ timers' = timers \ {t}
    /\ calls' = Append(calls, Call(t.req, "messenger", "sendQuickReply", t.to, FollowUpText, t.entry, "followup"))
    /\ UNCHANGED <<variant, conc, pc, body, idx, failed, resp, lastGet, rest, inv, http>>

(* the follow-up call settles; nobody awaits its result *)
SettleFollowUp(i) ==
    /\ calls[i].st = "pending"
    /\ calls[i].step = "followup"
    /\ calls' = settle(i)
    /\ UNCHANGED <<variant, conc, pc, body, idx, failed, resp, timers, lastGet, rest, inv, http>>

----------------------------------------------------------------------------
(* The verify hook of bodyParser.json: verifyRequestSignature *)

(* the signature a delivery of Meta carries for its body; the model has    *)
(* one that matches the body and one that does not                         *)
ValidSignature == "sha256=7d38cdd689735b008b3c702edd92eea23791c5f6"

Signatures == Opt({"", ValidSignature, "sha256=0000000000000000000000000000000000000000"})

(* what the hook does with the x-hub-signature-256 header: body-parser     *)
(* rejects the request when the hook throws and parses it when the hook    *)
(* returns.  Without a header the hook warns and returns; with one it logs *)
(* it as verified, without computing anything, and returns.                *)
verifyRequestSignature(signature) ==
    IF ~truthy(signature) THEN "return" ELSE "return"

(* a delivery with the given signature header arrives in slot r *)
webhookPostSigned(r, b, signature) ==
    /\ verifyRequestSignature(signature) = "return"
    /\ webhookPost(r, b)

----------------------------------------------------------------------------
(* The API client (class Messenger).  The logged and basic servers run the *)
(* client of src/messenger.js (Graph API v18.0), the enhanced server the   *)
(* client of src/unnamed/part_000 (v23.0).                                 *)

PAGE_ID == "your_page_id_here"
PAGE_ACCESS_TOKEN == "your_page_access_token_here"

apiVersion(v) == IF v = "enhanced" THEN "23.0" ELSE "18.0"

apiUrl(v) == "https://graph.facebook.com/v" \o apiVersion(v)

(* the arguments of an operation: a user id, a text (message, image url,   *)
(* template text), the typing flag                                         *)
Args(u, t, f) == [userId |-> u, text |-> t, typing |-> f]

GetOps == {"getConversations", "getUserProfile"}

opMethod(op) == IF op \in GetOps THEN "GET" ELSE "POST"

(* the path under the base url: `${pageId}/messages` and the like *)
opPath(op, args) ==
    CASE op = "getConversations" -> <<PAGE_ID, "conversations">>
      [] op = "getUserProfile" -> <<args.userId>>
      [] OTHER -> <<PAGE_ID, "messages">>

(* the parameters object an operation builds, as key / value pairs; the    *)
(* key of a nested value is its path                                       *)
opParameters(v, client, op, args) ==
    CASE op = "sendTextMessage" ->
            { <<"recipient.id", args.userId>>, <<"messaging_type", "RESPONSE">>,
              <<"message.text", args.text>> }
      [] op = "sendImage" ->
            { <<"recipient.id", args.userId>>, <<"messaging_type", "RESPONSE">>,
              <<"message.attachment.type", "image">>,
              <<"message.attachment.payload.url", args.text>> }
            \cup (IF v = "enhanced"
                  THEN { <<"message.attachment.payload.is_reusable", "true">> } ELSE {})
      [] op = "sendButtonTemplate" ->
            { <<"recipient.id", args.userId>>, <<"messaging_type", "RESPONSE">>,
              <<"message.attachment.type", "template">>,
              <<"message.attachment.payload.template_type", "button">>,
              <<"message.attachment.payload.text", args.text>> }
      [] op = "markAsSeen" ->
            { <<"recipient.id", args.userId>>, <<"sender_action", "mark_seen">> }
      [] op = "sendTypingIndicator" ->
            { <<"recipient.id", args.userId>>,
              <<"sender_action", IF args.typing THEN "typing_on" ELSE "typing_off">> }
      [] op = "getConversations" ->
            IF v = "enhanced"
            THEN { <<"fields", "id,snippet,updated_time,message_count,unread_count,can_reply,is_subscribed">> }
            ELSE { <<"platform", client>>, <<"fields", "id,participants,updated_time">> }
      [] op = "getUserProfile" ->
            IF v = "enhanced"
            THEN { <<"fields", "id,name,first_name,last_name,profile_pic,locale,timezone,gender,is_payment_enabled,last_ad_referral">> }
            ELSE { <<"fields", "id,name,first_name,last_name,profile_pic">> }
      [] OTHER -> {}

(* #sendApiRequest up to `await fetch(url, options)`: the request handed   *)
(* to fetch for invocation number n.  The v18.0 client adds access_token   *)
(* to the parameters and sends them as query string (GET) or JSON body     *)
(* (POST); the v23.0 client builds `params` and then calls fetch with the  *)
(* bare url and no body.                                                   *)
sendApiRequest(v, client, op, args, n) ==
    LET params == opParameters(v, client, op, args) \cup {<<"access_token", PAGE_ACCESS_TOKEN>>}
    IN  IF v = "enhanced"
        THEN [ inv |-> n, method |-> opMethod(op), base |-> apiUrl(v), path |-> opPath(op, args),
               query |-> {}, body |-> {} ]
        ELSE [ inv |-> n, method |-> opMethod(op), base |-> apiUrl(v), path |-> opPath(op, args),
               query |-> IF opMethod(op) = "GET" THEN params ELSE {},
               body |-> IF opMethod(op) = "POST" THEN params ELSE {} ]

(* what fetch and the decoding of the response can come to *)
Outcomes ==
    { [kind |-> "network", status |-> 0, text |-> "request to https://graph.facebook.com failed, reason: connect ECONNREFUSED"],
      [kind |-> "status", status |-> 400, text |-> "Bad Request"],
      [kind |-> "status", status |-> 500, text |-> "Internal Server Error"],
      [kind |-> "json", status |-> 200, text |-> "invalid json response body"],
      [kind |-> "error", status |-> 200, text |-> "Invalid token"],
      [kind |-> "data", status |-> 200, text |-> "mid.1457764197618:41d102a3e1ae206a38"],
      [kind |-> "data", status |-> 200, text |-> "m_AG5Hz2Uq7tuwNEhXfYYKj8mJEM_QPpz5jdHtHaW"] }

(* variant of clientResult that takes a 200 response for a success         *)
(* whatever its body holds                                                 *)
clientResultTrusting(o) ==
    CASE o.kind \in {"network", "json"} ->
            [ok |-> FALSE, data |-> "", ctor |-> "FetchError", message |-> o.text]
      [] o.kind = "status" ->
            [ok |-> FALSE, data |-> "", ctor |-> "Error",
             message |-> "HTTP " \o ToString(o.status) \o ": " \o o.text]
      [] OTHER ->
            [ok |-> TRUE, data |-> o.text, ctor |-> "", message |-> ""]

(* #sendApiRequest after `await fetch`: the value the operation resolves   *)
(* with, or the error it rejects with (constructor name and message)       *)
clientResult(o) ==
    CASE o.kind \in {"network", "json"} ->
            [ok |-> FALSE, data |-> "", ctor |-> "FetchError", message |-> o.text]
      [] o.kind = "status" ->
            [ok |-> FALSE, data |-> "", ctor |-> "Error",
             message |-> "HTTP " \o ToString(o.status) \o ": " \o o.text]
      [] o.kind = "error" ->
            [ok |-> FALSE, data |-> "", ctor |-> "Error", message |-> "API Error: " \o o.text]
      [] OTHER ->
            [ok |-> TRUE, data |-> o.text, ctor |-> "", message |-> ""]

(* fetch has not come to an outcome yet *)
NoOutcome == [kind |-> "none", status |-> 0, text |-> ""]

(* an operation not settled yet has no result *)
NoResult == [ok |-> FALSE, data |-> "", ctor |-> "", message |-> ""]

Invocation(client, op, args, owner) ==
    [client |-> client, op |-> op, args |-> args, owner |-> owner, st |-> "pending",
     out |-> NoOutcome, res |-> NoResult]

----------------------------------------------------------------------------
(* The REST facade: /api/send-message, /api/send-image,                    *)
(* /api/send-button-template (enhanced server only), /api/conversations,   *)
(* /api/user/:userId                                                       *)

Absent == [has |-> FALSE, v |-> ""]
Given(x) == [has |-> TRUE, v |-> x]

ApiRequest(ep, u, t, p, b) == [ep |-> ep, userId |-> u, text |-> t, platform |-> p, buttons |-> b]

(* the requests of the model: body or query fields not given, given empty  *)
(* or given; `text` is the endpoint's second field (message, imageUrl,     *)
(* text); `buttons` is not given, given but no array, or an array          *)
ApiRequests ==
    {ApiRequest("send-message", u, t, p, "absent") :
        u \in Opt({"", "42"}), t \in Opt({"", "Hello there"}),
        p \in Opt({"", "instagram", "messenger", "whatsapp"})}
    \cup {ApiRequest("send-image", u, t, p, "absent") :
        u \in Opt({"42"}), t \in Opt({"https://example.com/image.png"}), p \in Opt({"instagram"})}
    \cup {ApiRequest("send-button-template", u, t, p, b) :
        u \in Opt({"42"}), t \in Opt({"Choose"}), p \in Opt({"instagram"}),
        b \in {"absent", "notArray", "array"}}
    \cup {ApiRequest("conversations", Absent, Absent, p, "absent") : p \in Opt({"instagram"})}
    \cup {ApiRequest("user", Given("42"), Absent, p, "absent") : p \in Opt({"instagram"})}

(* variant of messengerInstance that takes the Instagram client when no    *)
(* platform is given                                                       *)
messengerInstanceInstagramFirst(platform) ==
    IF platform.has /\ platform.v # "instagram" THEN "messenger" ELSE "instagram"

(* const messengerInstance = platform === 'instagram' ? instagram : messenger *)
messengerInstance(platform) ==
    IF platform.has /\ platform.v = "instagram" THEN "instagram" ELSE "messenger"

(* a JSON response body; `shape` says how the client's result is carried:  *)
(* under the key result, as the body itself, or not at all                 *)
Json(shape, error, errorType, result, received) ==
    [shape |-> shape, error |-> error, errorType |-> errorType, result |-> result,
     received |-> received, logging |-> FALSE]

(* res.json of the server definition: the enhanced server's middleware     *)
(* sets _logging on the body object before it is sent                      *)
resJson(v, json) ==
    IF v = "enhanced" /\ json.shape # "none" THEN [json EXCEPT !.logging = TRUE] ELSE json

NoReceived == [userId |-> Absent, text |-> Absent]

NoJson == Json("none", "", "", "", NoReceived)

RestEff(p, status, json, issue) == [pc |-> p, status |-> status, json |-> json, issue |-> issue]

NoRest == [pc |-> "idle", req |-> ApiRequest("", Absent, Absent, Absent, "absent"),
           status |-> 0, json |-> NoJson, call |-> 0]

(* return res.status(400).json({ error: ..., received: {...} }) *)
badRequest(q, error) ==
    RestEff("done", 400, Json("error", error, "", "", [userId |-> q.userId, text |-> q.text]), <<>>)

(* variant of callClient that invokes the operation a second time *)
callClientTwice(q, op, args) ==
    RestEff("await", 0, NoJson, <<Invocation(messengerInstance(q.platform), op, args, "rest"),
                                 Invocation(messengerInstance(q.platform), op, args, "rest")>>)

(* the endpoint calls its client operation and awaits it *)
callClient(q, op, args) ==
    RestEff("await", 0, NoJson, <<Invocation(messengerInstance(q.platform), op, args, "rest")>>)

(* variant of apiStart whose send-message endpoint validates the user id   *)
(* only                                                                    *)
apiStartUserOnly(v, q) ==
    CASE q.ep = "send-message" ->
            IF ~truthy(q.userId)
            THEN badRequest(q, "Missing userId or message")
            ELSE callClient(q, "sendTextMessage", Args(q.userId.v, q.text.v, FALSE))
      [] q.ep = "send-image" ->
            IF ~truthy(q.userId) \/ ~truthy(q.text)
            THEN badRequest(q, "Missing userId or imageUrl")
            ELSE callClient(q, "sendImage", Args(q.userId.v, q.text.v, FALSE))
      [] q.ep = "send-button-template" /\ v = "enhanced" ->
            IF ~truthy(q.userId) \/ ~truthy(q.text) \/ q.buttons # "array"
            THEN badRequest(q, "Missing userId, text, or buttons array")
            ELSE callClient(q, "sendButtonTemplate", Args(q.userId.v, q.text.v, FALSE))
      [] q.ep = "conversations" -> callClient(q, "getConversations", Args("", "", FALSE))
      [] q.ep = "user" -> callClient(q, "getUserProfile", Args(q.userId.v, "", FALSE))
      [] OTHER -> RestEff("done", 404, Json("error", "Endpoint not found", "", "", NoReceived), <<>>)

(* a REST handler from its entry to its first await *)
apiStart(v, q) ==
    CASE q.ep = "send-message" ->
            IF ~truthy(q.userId) \/ ~truthy(q.text)
            THEN badRequest(q, "Missing userId or message")
            ELSE callClient(q, "sendTextMessage", Args(q.userId.v, q.text.v, FALSE))
      [] q.ep = "send-image" ->
            IF ~truthy(q.userId) \/ ~truthy(q.text)
            THEN badRequest(q, "Missing userId or imageUrl")
            ELSE callClient(q, "sendImage", Args(q.userId.v, q.text.v, FALSE))
      [] q.ep = "send-button-template" /\ v = "enhanced" ->
            IF ~truthy(q.userId) \/ ~truthy(q.text) \/ q.buttons # "array"
            THEN badRequest(q, "Missing userId, text, or buttons array")
            ELSE callClient(q, "sendButtonTemplate", Args(q.userId.v, q.text.v, FALSE))
      [] q.ep = "conversations" -> callClient(q, "getConversations", Args("", "", FALSE))
      [] q.ep = "user" -> callClient(q, "getUserProfile", Args(q.userId.v, "", FALSE))
      [] OTHER -> RestEff("done", 404, Json("error", "Endpoint not found", "", "", NoReceived), <<>>)

(* variant of apiFinish that answers a failed send with 200 and            *)
(* success: false                                                          *)
apiFinishSoft(v, q, res) ==
    IF res.ok
    THEN RestEff("done", 200,
                 Json(IF q.ep \in {"conversations", "user"} THEN "body" ELSE "result",
                      "", "", res.data, NoReceived), <<>>)
    ELSE RestEff("done", 200, Json("error", res.message, res.ctor, "", NoReceived), <<>>)

(* a REST handler after its client call settled: res.json({ success: true, *)
(* result }), res.json(conversations), or the catch block                  *)
apiFinish(v, q, res) ==
    IF res.ok
    THEN RestEff("done", 200,
                 Json(IF q.ep \in {"conversations", "user"} THEN "body" ELSE "result",
                      "", "", res.data, NoReceived), <<>>)
    ELSE RestEff("done", 500, Json("error", res.message, res.ctor, "", NoReceived), <<>>)

(* a REST request arrives *)
apiRequest(q) ==
    /\ rest.pc = "idle"
    /\ LET e == apiStart(variant, q)
       IN  /\ rest' = [pc |-> e.pc, req |-> q, status |-> e.status,
                       json |-> resJson(variant, e.json),
                       call |-> IF e.issue = <<>> THEN 0 ELSE Len(inv) + 1]
           /\ inv' = inv \o e.issue
           /\ http' = http \o [i \in 1..Len(e.issue) |->
                                 sendApiRequest(variant, e.issue[i].client, e.issue[i].op,
                                                e.issue[i].args, Len(inv) + i)]
    /\ UNCHANGED <<variant, conc, pc, body, idx, failed, resp, calls, timers, lastGet>>

(* the fetch of the awaited client call comes to outcome o *)
apiSettle(o) ==
    /\ rest.pc = "await"
    /\ inv[rest.call].st = "pending"
    /\ LET e == apiFinish(variant, rest.req, clientResult(o))
       IN  rest' = [rest EXCEPT !.pc = e.pc, !.status = e.status,
                                !.json = resJson(variant, e.json)]
    /\ inv' = [inv EXCEPT ![rest.call].st = IF clientResult(o).ok THEN "resolved" ELSE "rejected",
                          ![rest.call].out = o,
                          ![rest.call].res = clientResult(o)]
    /\ UNCHANGED <<variant, conc, pc, body, idx, failed, resp, calls, timers, lastGet, http>>

(* the response is sent and the handler has returned *)
apiEnd ==
    /\ rest.pc = "done"
    /\ rest' = NoRest
    /\ inv' = <<>>
    /\ http' = <<>>
    /\ UNCHANGED <<variant, conc, pc, body, idx, failed, resp, calls, timers, lastGet>>

----------------------------------------------------------------------------
(* Operations of the API client invoked directly *)

MaxCalls == 2

(* the invocations of the model: the indicators, a text send and a read    *)
(* for one user                                                            *)
ClientCalls ==
    { <<"markAsSeen", Args("42", "", FALSE)>>,
      <<"sendTypingIndicator", Args("42", "", TRUE)>>,
      <<"sendTypingIndicator", Args("42", "", FALSE)>>,
      <<"sendTextMessage", Args("42", "Hello there", FALSE)>>,
      <<"getUserProfile", Args("42", "", FALSE)>> }

(* variant of clientCall that suppresses the request of an invocation      *)
(* identical to the one before it                                          *)
clientCallDeduplicating(op, args) ==
    /\ rest.pc = "idle"
    /\ Len(inv) < MaxCalls
    /\ inv' = Append(inv, Invocation("messenger", op, args, "direct"))
    /\ http' = IF inv # <<>> /\ inv[Len(inv)].op = op /\ inv[Len(inv)].args = args
               THEN http
               ELSE Append(http, sendApiRequest(variant, "messenger", op, args, Len(inv) + 1))
    /\ UNCHANGED <<variant, conc, pc, body, idx, failed, resp, calls, timers, lastGet, rest>>

(* an operation of the messenger client is invoked: it builds its          *)
(* parameters and hands one request to fetch                               *)
clientCall(op, args) ==
    /\ rest.pc = "idle"
    /\ Len(inv) < MaxCalls
    /\ inv' = Append(inv, Invocation("messenger", op, args, "direct"))
    /\ http' = Append(http, sendApiRequest(variant, "messenger", op, args, Len(inv) + 1))
    /\ UNCHANGED <<variant, conc, pc, body, idx, failed, resp, calls, timers, lastGet, rest>>

(* the fetch of invocation i comes to outcome o: the operation resolves or *)
(* rejects, and nothing is sent again                                      *)
clientSettle(i, o) ==
    /\ rest.pc = "idle"
    /\ i \in 1..Len(inv)
    /\ inv[i].st = "pending"
    /\ inv' = [inv EXCEPT ![i].st = IF clientResult(o).ok THEN "resolved" ELSE "rejected",
                          ![i].out = o,
                          ![i].res = clientResult(o)]
    /\ UNCHANGED <<variant, conc, pc, body, idx, failed, resp, calls, timers, lastGet, rest, http>>

----------------------------------------------------------------------------
(* Specification: deliveries arrive one at a time *)

Init ==
    /\ variant \in Variants
    /\ conc = 1
    /\ pc = [r \in Slots |-> "idle"]
    /\ body = [r \in Slots |-> NoBody]
    /\ idx = [r \in Slots |-> 0]
    /\ failed = [r \in Slots |-> {}]
    /\ resp = [r \in Slots |-> NoResponse]
    /\ calls = <<>>
    /\ timers = {}
    /\ lastGet = NoGet
    /\ rest = NoRest
    /\ inv = <<>>
    /\ http = <<>>

(* the slots in which a delivery can arrive *)
Idle == {r \in Slots : r <= conc /\ pc[r] = "idle"}

Settles ==
    \/ \E r \in Slots : requestEnd(r)
    \/ \E i \in 1..Len(calls), ok \in BOOLEAN : SettleSeen(i, ok)
    \/ \E i \in 1..Len(calls), ok \in BOOLEAN : SettleTypingOn(i, ok)
    \/ \E i \in 1..Len(calls), ok \in BOOLEAN : SettleReply(i, ok)
    \/ \E i \in 1..Len(calls), ok \in BOOLEAN : SettleFallback(i, ok)
    \/ \E i \in 1..Len(calls), ok \in BOOLEAN : SettleTypingOff(i, ok)
    \/ \E i \in 1..Len(calls), ok \in BOOLEAN : SettleInstagramReply(i, ok)
    \/ \E t \in timers : TimerFire(t)
    \/ \E i \in 1..Len(calls) : SettleFollowUp(i)

Next ==
    \/ \E r \in Idle : \E b \in Bodies : webhookPost(r, b)
    \/ Settles

Spec == Init /\ [][Next]_vars

(* Specification of the verification handshake: GET /webhook requests of   *)
(* every shape, interleaved with the steps of deliveries                   *)

VerifyBodies ==
    { Body("page", <<Entry(<<Ev(42, TextMsg(T_Hi))>>)>>),
      Body("page", <<Entry(<<Ev(43, NullMsg)>>)>>),
      Body("instagram", <<Entry(<<Ev(42, TextMsg(T_ok))>>)>>) }

NextVerify ==
    \/ \E q \in Queries : webhookGet(q)
    \/ \E r \in Idle : \E b \in VerifyBodies : webhookPost(r, b)
    \/ Settles

SpecVerify == Init /\ [][NextVerify]_vars

(* Specification of concurrent deliveries: two deliveries of one sender   *)
(* can be in flight at once; Express starts a handler per request and each *)
(* handler runs from one await to the next                                 *)

InitConc ==
    /\ variant \in Variants
    /\ conc = 2
    /\ pc = [r \in Slots |-> "idle"]
    /\ body = [r \in Slots |-> NoBody]
    /\ idx = [r \in Slots |-> 0]
    /\ failed = [r \in Slots |-> {}]
    /\ resp = [r \in Slots |-> NoResponse]
    /\ calls = <<>>
    /\ timers = {}
    /\ lastGet = NoGet
    /\ rest = NoRest
    /\ inv = <<>>
    /\ http = <<>>

(* page deliveries: a greeting and a text no rule matches from sender 42,  *)
(* the same greeting from sender 43                                        *)
ConcBodies ==
    { Body("page", <<Entry(<<Ev(42, TextMsg(T_Hi))>>)>>),
      Body("page", <<Entry(<<Ev(42, TextMsg(T_ok))>>)>>),
      Body("page", <<Entry(<<Ev(43, TextMsg(T_Hi))>>)>>) }

(* one delivery per slot, followed until both have been answered; the      *)
(* indicator calls succeed here (their failures are followed in Spec), the *)
(* reply and the fallback can fail                                         *)
NextConc ==
    \/ \E r \in Idle : \E b \in ConcBodies : webhookPost(r, b)
    \/ \E i \in 1..Len(calls) : SettleSeen(i, TRUE)
    \/ \E i \in 1..Len(calls) : SettleTypingOn(i, TRUE)
    \/ \E i \in 1..Len(calls), ok \in BOOLEAN : SettleReply(i, ok)
    \/ \E i \in 1..Len(calls), ok \in BOOLEAN : SettleFallback(i, ok)
    \/ \E i \in 1..Len(calls) : SettleTypingOff(i, TRUE)
    \/ \E t \in timers : TimerFire(t)
    \/ \E i \in 1..Len(calls) : SettleFollowUp(i)

SpecConc == InitConc /\ [][NextConc]_vars

(* Specification of signed deliveries: every delivery carries a signature  *)
(* header, or none                                                         *)

NextSigned ==
    \/ \E r \in Idle : \E b \in VerifyBodies, sg \in Signatures : webhookPostSigned(r, b, sg)
    \/ Settles

SpecSigned == Init /\ [][NextSigned]_vars

(* Specification with progress: a pending call, a timer or the end of an   *)
(* answered request is not postponed for ever (fetch resolves or rejects,  *)
(* the event loop runs the continuation)                                   *)

LiveEntries ==
    { Entry(<<Ev(42, TextMsg(T_Hi))>>),
      Entry(<<Ev(43, NullMsg)>>),
      NoMessagingEntry }

LiveBodies ==
    {NoEntryBody("page"), Body("user", <<>>)}
    \cup {Body(o, es) : o \in {"page", "instagram"}, es \in SeqsUpTo(LiveEntries, MaxEntries)}

NextLive ==
    \/ \E r \in Idle : \E b \in LiveBodies : webhookPost(r, b)
    \/ Settles

SpecLive == Init /\ [][NextLive]_vars /\ WF_vars(Settles)

(* Specification of the REST facade: requests handled one at a time *)

NextApi ==
    \/ \E q \in ApiRequests : apiRequest(q)
    \/ \E o \in Outcomes : apiSettle(o)
    \/ apiEnd

SpecApi == Init /\ [][NextApi]_vars

(* Specification of the API client: up to MaxCalls invocations *)

NextClient ==
    \/ \E c \in ClientCalls : clientCall(c[1], c[2])
    \/ \E i \in 1..MaxCalls, o \in Outcomes : clientSettle(i, o)

SpecClient == Init /\ [][NextClient]_vars

----------------------------------------------------------------------------
(* Properties of the verification handshake (checked under SpecVerify) *)

(* C1: GET /webhook answers 200 with the challenge as body exactly when    *)
(* hub.mode is "subscribe" and hub.verify_token is the configured secret;  *)
(* otherwise it answers 403 when mode and token are both given, and 400    *)
(* when mode or token is missing (a value the handler reports as missing:  *)
(* not given, or given empty).                                             *)
C1_VerifyContract ==
    lastGet.has =>
        LET q == lastGet.q
            given(x) == x.has /\ x.v # ""
            verified == /\ q.mode.has /\ q.mode.v = "subscribe"
                        /\ q.token.has /\ q.token.v = VERIFY_TOKEN
        IN  /\ (lastGet.resp.status = 200) <=> verified
            /\ verified => lastGet.resp.body = q.challenge.v
            /\ (~verified /\ given(q.mode) /\ given(q.token)) => lastGet.resp.status = 403
            /\ (~given(q.mode) \/ ~given(q.token)) => lastGet.resp.status = 400

C1_Witness ==
    /\ lastGet.has
    /\ lastGet.resp.status = 200
    /\ lastGet.resp.body = "1158201444"

(* C3: a GET /webhook request issues no outbound call and changes nothing  *)
(* of the server's state, and a request repeated after any other requests  *)
(* gets the status and body it got before.                                 *)
C3_VerifyPure ==
    [][lastGet' # lastGet =>
          /\ UNCHANGED <<variant, conc, pc, body, idx, failed, resp, calls, timers, rest, inv, http>>
          /\ (lastGet.has /\ lastGet'.q = lastGet.q) => lastGet'.resp = lastGet.resp]_vars

C3_Witness ==
    /\ lastGet.has
    /\ lastGet.resp.status = 200
    /\ pc[1] = "typingOff"
    /\ Len(calls) = 4

----------------------------------------------------------------------------
(* Vocabulary of the delivery properties *)

CallsOf(r) == SelectSeq(calls, LAMBDA c : c.req = r)

(* the calls the handler itself issued and awaited *)
HandlerCalls(r) == SelectSeq(calls, LAMBDA c : c.req = r /\ c.step # "followup")

FollowUps(r) == SelectSeq(calls, LAMBDA c : c.req = r /\ c.step = "followup")

Trace(cs) == [i \in 1..Len(cs) |-> <<cs[i].op, cs[i].to, cs[i].payload>>]

IsPrefix(s, t) == Len(s) <= Len(t) /\ \A i \in 1..Len(s) : s[i] = t[i]

(* every call but the last has settled: no call started before the one    *)
(* before it completed                                                    *)
OneAtATime(cs) == \A i \in 1..Len(cs) : i < Len(cs) => cs[i].st = "settled"

(* a substring of t is, lower-cased, one of the keywords ks *)
HasWord(t, ks) ==
    \E w \in ks : \E i \in 0..(Len(t) - Len(w)) :
        \A j \in 1..Len(w) : lowerChar(t[i + j]) = w[j]

GreetingWordsOf(v) == IF v = "enhanced" THEN {Kw_hello, Kw_hi, Kw_hey} ELSE {Kw_hello, Kw_hi}

(* the texts of the model that match the greeting rule of definition v *)
GreetingTexts == [v \in Variants |-> {t \in Texts : HasWord(t, GreetingWordsOf(v))}]

(* the texts of the model that contain "hello" or "hi" *)
HelloHiTexts == {t \in Texts : HasWord(t, {Kw_hello, Kw_hi})}

TheGreeting == IF variant = "enhanced" THEN GreetingTextEnhanced ELSE GreetingText

(* the delivery in slot r is a page delivery of one entry whose first     *)
(* event is a text message that matches the greeting rule                 *)
GreetingDelivery(r) ==
    /\ body[r].object = "page"
    /\ body[r].hasEntry
    /\ Len(body[r].entry) = 1
    /\ body[r].entry[1].hasMessaging
    /\ Len(body[r].entry[1].messaging) >= 1
    /\ body[r].entry[1].messaging[1].hasSender
    /\ ~body[r].entry[1].messaging[1].message.isNull
    /\ body[r].entry[1].messaging[1].message.text \in GreetingTexts[variant]

GreetingTrace(s) ==
    << <<"markAsSeen", s, "mark_seen">>,
       <<"sendTypingIndicator", s, "typing_on">>,
       <<"sendTextMessage", s, TheGreeting>>,
       <<"sendTypingIndicator", s, "typing_off">> >>

----------------------------------------------------------------------------
(* Properties of the delivery flow (checked under Spec) *)

Rule(n, ks) == [name |-> n, words |-> ks]

RuleListOf(v) ==
    IF v = "enhanced"
    THEN << Rule("greeting", {Kw_hello, Kw_hi, Kw_hey}),
            Rule("help", {Kw_help, Kw_support}),
            Rule("button", {Kw_button, Kw_template}),
            Rule("list", {Kw_list, Kw_menu}),
            Rule("generic", {Kw_generic, Kw_cards}),
            Rule("insights", {Kw_insights, Kw_analytics}),
            Rule("reaction", {Kw_reaction, Kw_emoji}),
            Rule("notification", {Kw_notification, Kw_alert}),
            Rule("version", {Kw_version, Kw_api}) >>
    ELSE << Rule("greeting", {Kw_hello, Kw_hi}),
            Rule("help", {Kw_help}),
            Rule("button", {Kw_button}) >>

MatchingOf(v, t) == {i \in 1..Len(RuleListOf(v)) : HasWord(t, RuleListOf(v)[i].words)}

FirstMatchOf(v, t) ==
    IF MatchingOf(v, t) = {} THEN "default"
    ELSE RuleListOf(v)[CHOOSE i \in MatchingOf(v, t) : \A j \in MatchingOf(v, t) : i <= j].name

(* the rules each text of the model matches, and the first of them *)
MatchingTable == [v \in Variants |-> [t \in Texts |-> MatchingOf(v, t)]]
FirstMatchTable == [v \in Variants |-> [t \in Texts |-> FirstMatchOf(v, t)]]

Matching(t) == MatchingTable[variant][t]
FirstMatch(t) == FirstMatchTable[variant][t]

TheDefault == IF variant = "enhanced" THEN DefaultTextEnhanced ELSE DefaultText

(* entries of the delivery in slot r whose first event is a text message *)
TextEntries(r) ==
    IF ~body[r].hasEntry THEN {}
    ELSE {k \in 1..Len(body[r].entry) :
            /\ body[r].entry[k].hasMessaging
            /\ Len(body[r].entry[k].messaging) >= 1
            /\ body[r].entry[k].messaging[1].hasSender
            /\ ~body[r].entry[k].messaging[1].message.isNull
            /\ body[r].entry[k].messaging[1].message.text # <<>>}

TextOf(r, k) == body[r].entry[k].messaging[1].message.text
SenderOf(r, k) == body[r].entry[k].messaging[1].sender

SelectionSteps == {"reply", "insightsGet", "notify", "igReply"}
ReplySteps == {"reply", "insightsGet", "insightsSend", "insightsSorry", "notify", "notifySorry", "igReply"}

(* the calls by which response selection answered the event of entry k *)
SelectionCalls(r, k) ==
    SelectSeq(calls, LAMBDA c : c.req = r /\ c.entry = k /\ c.step \in SelectionSteps)

ReplyCalls(r, k) ==
    SelectSeq(calls, LAMBDA c : c.req = r /\ c.entry = k /\ c.step \in ReplySteps)

(* response selection has run for the event of entry k *)
Selected(r, k) ==
    \/ idx[r] = k /\ pc[r] \in ReplySteps \cup {"fallback", "typingOff"}
    \/ idx[r] > k /\ body[r].object = "instagram"

(* C4: a page text message whose lower-cased text contains "hello" or "hi" *)
(* is answered with the greeting, whatever else the text contains: never   *)
(* with the default reply or another rule's reply.                         *)
C4_GreetingWins ==
    \A r \in Slots : \A k \in TextEntries(r) :
        (body[r].object = "page" /\ TextOf(r, k) \in HelloHiTexts) =>
            /\ Selected(r, k) => Len(SelectionCalls(r, k)) = 1
            /\ \A i \in 1..Len(SelectionCalls(r, k)) :
                  Trace(SelectionCalls(r, k))[i] = <<"sendTextMessage", SenderOf(r, k), TheGreeting>>

C4_Witness ==
    /\ body[1].object = "page"
    /\ 1 \in TextEntries(1)
    /\ TextOf(1, 1) = T_this
    /\ Selected(1, 1)
    /\ Len(SelectionCalls(1, 1)) = 1
    /\ SelectionCalls(1, 1)[1].payload = TheGreeting

(* C5: a text message that matches no keyword of the configured rules is   *)
(* answered with exactly the default text, sent to the sender by the one   *)
(* and only call made for the reply.                                       *)
C5_DefaultReply ==
    \A r \in Slots : \A k \in TextEntries(r) :
        /\ (body[r].object = "page" /\ Matching(TextOf(r, k)) = {}) =>
              /\ Selected(r, k) => Len(ReplyCalls(r, k)) = 1
              /\ \A i \in 1..Len(ReplyCalls(r, k)) :
                    Trace(ReplyCalls(r, k))[i] = <<"sendTextMessage", SenderOf(r, k), TheDefault>>
        /\ (body[r].object = "instagram" /\ TextOf(r, k) \notin HelloHiTexts) =>
              /\ Selected(r, k) => Len(ReplyCalls(r, k)) = 1
              /\ \A i \in 1..Len(ReplyCalls(r, k)) :
                    Trace(ReplyCalls(r, k))[i] = <<"sendTextMessage", SenderOf(r, k), InstagramDefaultText>>

C5_Witness ==
    /\ body[1].object = "page"
    /\ 1 \in TextEntries(1)
    /\ TextOf(1, 1) = T_ok
    /\ pc[1] = "done"
    /\ Len(ReplyCalls(1, 1)) = 1
    /\ ReplyCalls(1, 1)[1].payload = TheDefault

(* C6: the rules are tried in their declared order and the first rule that *)
(* matches decides the reply: a text message that matches several rules    *)
(* gets the reply of the earliest of them, and one rule's reply is         *)
(* selected per message.                                                   *)
C6_FirstMatchWins ==
    \A r \in Slots : \A k \in TextEntries(r) :
        body[r].object = "page" =>
            /\ Selected(r, k) => Len(SelectionCalls(r, k)) = 1
            /\ Len(SelectionCalls(r, k)) <= 1
            /\ \A i \in 1..Len(SelectionCalls(r, k)) :
                  /\ SelectionCalls(r, k)[i].op = ruleOp(variant, FirstMatch(TextOf(r, k)))
                  /\ SelectionCalls(r, k)[i].payload = ruleText(variant, FirstMatch(TextOf(r, k)))

C6_Witness ==
    /\ body[1].object = "page"
    /\ 1 \in TextEntries(1)
    /\ TextOf(1, 1) = T_button_help
    /\ Cardinality(Matching(TextOf(1, 1))) = 2
    /\ Selected(1, 1)
    /\ Len(SelectionCalls(1, 1)) = 1
    /\ SelectionCalls(1, 1)[1].op = "sendQuickReply"

----------------------------------------------------------------------------
(* Properties of failures and of the traversal of the entries *)

(* every entry of the delivery in slot r decodes: it has a messaging list  *)
(* whose first event, when there is one, names its sender                  *)
Decodes(r) ==
    /\ body[r].hasEntry
    /\ \A k \in 1..Len(body[r].entry) :
          /\ body[r].entry[k].hasMessaging
          /\ Len(body[r].entry[k].messaging) >= 1 => body[r].entry[k].messaging[1].hasSender

(* entries of the delivery in slot r that have a first event *)
EventEntries(r) ==
    IF ~body[r].hasEntry THEN {}
    ELSE {k \in 1..Len(body[r].entry) :
            /\ body[r].entry[k].hasMessaging
            /\ Len(body[r].entry[k].messaging) >= 1
            /\ body[r].entry[k].messaging[1].hasSender}

IndicatorSteps == {"seen", "typingOn", "typingOff"}

StepCalls(r, k, steps) ==
    SelectSeq(calls, LAMBDA c : c.req = r /\ c.entry = k /\ c.step \in steps)

(* C7: in a page delivery whose entries decode, when the only calls that   *)
(* failed for an event are markAsSeen, typing-on or typing-off, the        *)
(* handler goes through every entry, each text event gets its reply and    *)
(* its typing-off step, and the response is 200 "EVENT_RECEIVED".          *)
C7_IndicatorFailuresSwallowed ==
    \A r \in Slots :
        ( /\ body[r].object = "page"
          /\ Decodes(r)
          /\ failed[r] # {}
          /\ failed[r] \subseteq IndicatorSteps
          /\ pc[r] = "done" ) =>
            /\ resp[r] = [status |-> 200, body |-> "EVENT_RECEIVED"]
            /\ idx[r] = Len(body[r].entry) + 1
            /\ \A k \in TextEntries(r) : Len(ReplyCalls(r, k)) >= 1
            /\ \A k \in EventEntries(r) : Len(StepCalls(r, k, {"typingOff"})) = 1

(* the steps whose failure is a failure of response selection: it lands in *)
(* the catch block of processMessage or of processInstagramMessage         *)
SelectionFailures == {"reply", "insightsSorry", "notifySorry", "igReply"}

(* response selection failed for the event of entry k: the message is      *)
(* missing, or the call that delivers the selected reply failed            *)
SelectionFailed(r, k) ==
    \/ body[r].entry[k].messaging[1].message.isNull /\ Selected(r, k)
    \/ /\ failed[r] \cap SelectionFailures # {}
       /\ HandlerCalls(r) # <<>>
       /\ HandlerCalls(r)[Len(HandlerCalls(r))].entry = k

(* C8: on either surface, when response selection failed for an event of a *)
(* delivery whose entries decode, exactly one fallback text message is     *)
(* sent to the sender of the event, and the handler does not see the       *)
(* failure, nor a failure of the fallback send: it answers 200.            *)
C8_FallbackOnce ==
    \A r \in Slots :
        (body[r].object \in {"page", "instagram"} /\ Decodes(r)) =>
            \A k \in EventEntries(r) :
                SelectionFailed(r, k) =>
                    /\ Len(StepCalls(r, k, {"fallback"})) = 1
                    /\ \A i \in 1..Len(StepCalls(r, k, {"fallback"})) :
                          /\ StepCalls(r, k, {"fallback"})[i].op = "sendTextMessage"
                          /\ StepCalls(r, k, {"fallback"})[i].to = body[r].entry[k].messaging[1].sender
                    /\ pc[r] = "done" => resp[r].status = 200

(* C9: of each entry only the first event is processed: every outbound     *)
(* call and every timer of a delivery belongs to an entry that has a first *)
(* event and, when it names a recipient, names the sender of that first    *)
(* event; the entry gets one markAsSeen at most, and on the secondary      *)
(* surface one reply at most.                                              *)
C9_FirstEventOnly ==
    /\ \A i \in 1..Len(calls) :
          /\ calls[i].entry \in EventEntries(calls[i].req)
          /\ \/ calls[i].op = "getPageInsights"
             \/ calls[i].to = body[calls[i].req].entry[calls[i].entry].messaging[1].sender
    /\ \A t \in timers :
          /\ t.entry \in EventEntries(t.req)
          /\ t.to = body[t.req].entry[t.entry].messaging[1].sender
    /\ \A r \in Slots : \A k \in EventEntries(r) :
          /\ Len(StepCalls(r, k, {"seen"})) <= 1
          /\ Len(StepCalls(r, k, {"igReply"})) <= 1

C9_Witness ==
    /\ body[1].object = "page"
    /\ body[1].hasEntry
    /\ Len(body[1].entry) = 1
    /\ body[1].entry[1] = Entry(<<Ev(42, TextMsg(T_ok)), LaterEv>>)
    /\ pc[1] = "done"
    /\ Len(CallsOf(1)) = 4
    /\ \A i \in 1..Len(calls) : calls[i].to = 42

(* C10: an entry whose messaging list is empty is skipped: no outbound     *)
(* call and no timer belongs to it, the handler never stops at it (neither *)
(* to wait nor to answer an error), and a delivery whose entries decode    *)
(* and in which no call failed is answered 200 "EVENT_RECEIVED".           *)
C10_EmptyEntrySkipped ==
    \A r \in Slots :
        (body[r].object \in {"page", "instagram"} /\ body[r].hasEntry) =>
            /\ \A k \in 1..Len(body[r].entry) :
                  (body[r].entry[k].hasMessaging /\ Len(body[r].entry[k].messaging) = 0) =>
                      /\ StepCalls(r, k, IndicatorSteps \cup ReplySteps \cup {"fallback", "followup"}) = <<>>
                      /\ \A t \in timers : ~(t.req = r /\ t.entry = k)
                      /\ idx[r] # k
            /\ (pc[r] = "done" /\ Decodes(r) /\ failed[r] = {}) =>
                  resp[r] = [status |-> 200, body |-> "EVENT_RECEIVED"]

C10_Witness ==
    /\ body[1].object = "page"
    /\ body[1].hasEntry
    /\ Len(body[1].entry) = 2
    /\ body[1].entry[1] = Entry(<<>>)
    /\ body[1].entry[2] = Entry(<<Ev(42, TextMsg(T_Hi))>>)
    /\ pc[1] = "done"
    /\ resp[1].status = 200
    /\ Len(StepCalls(1, 2, {"typingOff"})) = 1

----------------------------------------------------------------------------
(* Properties of the discriminator and of decoding *)

(* C11: a delivery whose object is neither "page" nor "instagram" is       *)
(* answered 404 at once and no outbound call or timer is made for it.      *)
C11_UnknownObject ==
    \A r \in Slots :
        (pc[r] # "idle" /\ body[r].object \notin {"page", "instagram"}) =>
            /\ pc[r] = "done"
            /\ resp[r] = [status |-> 404, body |-> "Not Found"]
            /\ CallsOf(r) = <<>>
            /\ \A t \in timers : t.req # r

C11_Witness ==
    /\ pc[1] = "done"
    /\ body[1].object = "user"
    /\ body[1].hasEntry
    /\ Len(body[1].entry) = 1
    /\ body[1].entry[1] = Entry(<<Ev(42, TextMsg(T_Hi))>>)
    /\ resp[1].status = 404

(* the handler has gone through the event of entry k *)
Processed(r, k) ==
    IF body[r].object = "page"
    THEN /\ Len(StepCalls(r, k, {"typingOff"})) = 1
         /\ StepCalls(r, k, {"typingOff"})[1].st = "settled"
    ELSE k \in TextEntries(r) =>
            /\ Len(StepCalls(r, k, {"igReply"})) = 1
            /\ StepCalls(r, k, {"igReply"})[1].st = "settled"

----------------------------------------------------------------------------
(* Attachments *)

(* entries of the delivery in slot r whose first event is a message        *)
(* without text that carries an attachment list                            *)
AttEntries(r) ==
    {k \in EventEntries(r) :
        /\ ~body[r].entry[k].messaging[1].message.isNull
        /\ body[r].entry[k].messaging[1].message.text = <<>>
        /\ body[r].entry[k].messaging[1].message.hasAtt}

(* entries whose first event carries both a text and attachments *)
TextAttEntries(r) ==
    {k \in TextEntries(r) : body[r].entry[k].messaging[1].message.hasAtt}

AttOrder == <<"image", "video", "audio", "file">>

AttReplies == <<ImageText, VideoText, AudioText, FileText>>

(* the reply of the first type of the ordered list that is among the       *)
(* declared types, the attachment default when none is                     *)
AttReplyOf(types) ==
    LET declared == {types[i] : i \in 1..Len(types)}
        hits == {n \in 1..Len(AttOrder) : AttOrder[n] \in declared}
    IN  IF hits = {} THEN AttachmentText
        ELSE AttReplies[CHOOSE n \in hits : \A m \in hits : n <= m]

(* C21: a page event that carries attachments and no text is answered by   *)
(* exactly one reply, chosen by the ordered list image, video, audio, file *)
(* over the declared types with a default for other types; an event with   *)
(* text is answered by the text rules whatever attachments it carries.     *)
C21_AttachmentRules ==
    \A r \in Slots :
        body[r].object = "page" =>
            /\ \A k \in AttEntries(r) :
                  /\ Selected(r, k) => Len(ReplyCalls(r, k)) = 1
                  /\ \A i \in 1..Len(ReplyCalls(r, k)) :
                        Trace(ReplyCalls(r, k))[i] =
                            <<"sendTextMessage", SenderOf(r, k),
                              AttReplyOf(body[r].entry[k].messaging[1].message.att)>>
            /\ \A k \in TextAttEntries(r) :
                  /\ Selected(r, k) => Len(SelectionCalls(r, k)) = 1
                  /\ \A i \in 1..Len(SelectionCalls(r, k)) :
                        /\ SelectionCalls(r, k)[i].op = ruleOp(variant, FirstMatch(TextOf(r, k)))
                        /\ SelectionCalls(r, k)[i].payload = ruleText(variant, FirstMatch(TextOf(r, k)))

(* C21 for the enhanced server, the one that has attachment rules *)
C21_AttachmentRulesEnhanced == variant = "enhanced" => C21_AttachmentRules

(* the enhanced server has answered a video and image message as an image *)
C21_WitnessEnhanced ==
    /\ variant = "enhanced"
    /\ body[1].object = "page"
    /\ 1 \in AttEntries(1)
    /\ body[1].entry[1].messaging[1].message.att = <<"video", "image">>
    /\ pc[1] = "done"
    /\ Len(ReplyCalls(1, 1)) = 1
    /\ ReplyCalls(1, 1)[1].payload = ImageText

----------------------------------------------------------------------------
(* Statelessness of response selection *)

(* the operation and payload of the calls by which selection answered the  *)
(* event of entry k of delivery r                                          *)
Choice(r, k) ==
    {<<SelectionCalls(r, k)[i].op, SelectionCalls(r, k)[i].payload>> :
        i \in 1..Len(SelectionCalls(r, k))}

(* C23: response selection is a function of the message text alone: any   *)
(* two text events with the same text, in deliveries that overlap or       *)
(* follow one another, whoever sent them and however the calls made before *)
(* them ended, are answered with the same operation and the same payload,  *)
(* and each is answered by one selection call.                             *)
C23_Stateless ==
    /\ \A i \in 1..Len(calls) :
          calls[i].step \in SelectionSteps =>
              \A j \in 1..Len(calls) :
                  (/\ calls[j].step \in SelectionSteps
                   /\ body[calls[i].req].object = body[calls[j].req].object
                   /\ TextOf(calls[i].req, calls[i].entry) = TextOf(calls[j].req, calls[j].entry)) =>
                      /\ calls[i].op = calls[j].op
                      /\ calls[i].payload = calls[j].payload
    /\ \A r \in Slots : \A k \in TextEntries(r) :
          Selected(r, k) => Len(SelectionCalls(r, k)) = 1

(* the same greeting came from two senders; the first delivery was         *)
(* answered, its reply having failed (the fallback was sent), before the   *)
(* second one's reply was chosen, and both got the greeting                *)
C23_Witness ==
    \E a, b \in Slots :
        /\ a # b
        /\ 1 \in TextEntries(a) /\ 1 \in TextEntries(b)
        /\ TextOf(a, 1) = T_Hi /\ TextOf(b, 1) = T_Hi
        /\ SenderOf(a, 1) # SenderOf(b, 1)
        /\ pc[a] = "done"
        /\ Len(StepCalls(a, 1, {"fallback"})) = 1
        /\ \E i, j \in 1..Len(calls) :
              /\ calls[i].req = a /\ calls[i].step = "typingOff"
              /\ calls[j].req = b /\ calls[j].step = "seen"
              /\ i < j
        /\ Len(SelectionCalls(b, 1)) = 1
        /\ Choice(a, 1) = Choice(b, 1)

----------------------------------------------------------------------------
(* Request signatures (checked under SpecSigned) *)

(* C24: a delivery whose x-hub-signature-256 header is absent or does not  *)
(* match is not processed: no handler is started for it and no outbound    *)
(* call is made.                                                           *)
C24_SignatureValidated ==
    [][\A r \in Slots, b \in VerifyBodies, sg \in Signatures :
          (sg # Given(ValidSignature) /\ webhookPostSigned(r, b, sg)) =>
              /\ calls' = calls
              /\ body'[r] = body[r]]_vars

----------------------------------------------------------------------------
(* Failures of outbound calls and the response *)

(* C25: a page delivery whose entries all decode is answered 200           *)
(* "EVENT_RECEIVED" whichever of its outbound calls fail.                  *)
C25_CallFailuresNeverFatal ==
    \A r \in Slots :
        (pc[r] = "done" /\ body[r].object = "page" /\ Decodes(r)) =>
            resp[r] = [status |-> 200, body |-> "EVENT_RECEIVED"]

(* C25 for the server definitions that wrap every outbound call *)
C25_CallFailuresNeverFatalWrapped == swallows(variant) => C25_CallFailuresNeverFatal

(* a page delivery was answered 200 although its mark-seen, its typing-on, *)
(* its reply and its fallback failed                                       *)
C25_WitnessWrapped ==
    /\ swallows(variant)
    /\ pc[1] = "done"
    /\ body[1].object = "page"
    /\ Decodes(1)
    /\ {"seen", "typingOn", "reply", "fallback"} \subseteq failed[1]
    /\ resp[1].status = 200

(* the handler of delivery r has left the event of entry k behind: it has  *)
(* started a later entry or has answered                                   *)
Left(r, k) == pc[r] = "done" \/ idx[r] > k

(* C26: in the page flow every typing-on attempt for an event is followed, *)
(* before the handler starts the next entry or answers, by one typing-off  *)
(* attempt for the same sender, whatever calls failed in between.          *)
C26_TypingOffFollows ==
    \A r \in Slots : \A k \in EventEntries(r) :
        (body[r].object = "page" /\ Left(r, k) /\ Len(StepCalls(r, k, {"typingOn"})) = 1) =>
            /\ Len(StepCalls(r, k, {"typingOff"})) = 1
            /\ StepCalls(r, k, {"typingOff"})[1].to = StepCalls(r, k, {"typingOn"})[1].to

(* C26 for the server definitions that wrap every outbound call *)
C26_TypingOffFollowsWrapped == swallows(variant) => C26_TypingOffFollows

(* typing-off was attempted although the reply and the fallback failed *)
C26_WitnessWrapped ==
    /\ swallows(variant)
    /\ body[1].object = "page"
    /\ pc[1] = "done"
    /\ {"reply", "fallback"} \subseteq failed[1]
    /\ Len(StepCalls(1, 1, {"typingOn"})) = 1
    /\ Len(StepCalls(1, 1, {"typingOff"})) = 1

----------------------------------------------------------------------------
(* One response per delivery (checked under SpecLive) *)

(* C27: a POST /webhook request gets one response, 200, 404 or 500: the    *)
(* response is written when the handler ends and at no other time, an      *)
(* answered request is never answered again, and, pending calls settling   *)
(* sooner or later, every delivery is answered.                            *)
C27_OneResponse ==
    /\ [](\A r \in Slots :
            /\ resp[r].status \in {0, 200, 404, 500}
            /\ resp[r].status # 0 <=> pc[r] = "done")
    /\ [][\A r \in Slots :
            pc[r] = "done" =>
                \/ pc'[r] = "done" /\ resp'[r] = resp[r]
                \/ pc'[r] = "idle" /\ resp'[r] = NoResponse]_vars
    /\ \A r \in Slots : (pc[r] # "idle") ~> (pc[r] = "done")

(* a delivery of two entries has been answered after calls of both entries *)
(* were made and the reply to the first failed                             *)
C27_Witness ==
    /\ pc[1] = "done"
    /\ resp[1].status = 200
    /\ Len(body[1].entry) = 2
    /\ Len(StepCalls(1, 1, {"fallback"})) = 1
    /\ Len(StepCalls(1, 2, {"typingOff"})) = 1

----------------------------------------------------------------------------
(* Completion before the response *)

(* the calls issued by the step *)
NewCalls == {calls'[i] : i \in (Len(calls) + 1)..Len(calls')}

(* typing-off has been issued for the event of entry k of delivery r *)
TypingOffIssued(r, k) ==
    \E i \in 1..Len(calls) : calls[i].req = r /\ calls[i].entry = k /\ calls[i].step = "typingOff"

(* the response of delivery r is sent, or typing-off was issued for the    *)
(* event call c belongs to                                                 *)
Finished(c) == pc[c.req] = "done" \/ TypingOffIssued(c.req, c.entry)

----------------------------------------------------------------------------
(* Concurrent deliveries (checked under SpecConc) *)

(* the place of a step in the handling of one event *)
Rank(step) ==
    CASE step = "seen" -> 1
      [] step = "typingOn" -> 2
      [] step \in {"reply", "insightsGet", "notify", "igReply"} -> 3
      [] step = "insightsSend" -> 4
      [] step \in {"insightsSorry", "notifySorry"} -> 5
      [] step = "fallback" -> 6
      [] OTHER -> 7

(* the text the handler of delivery r answers the event of entry k with *)
OwnReply(r, k) ==
    IF body[r].object = "page"
    THEN ruleText(variant, selectRule(variant, TextOf(r, k)))
    ELSE IF selectInstagram(TextOf(r, k)) = "greeting"
         THEN InstagramGreetingText ELSE InstagramDefaultText

(* C20: with two deliveries of one sender in flight at once, each          *)
(* delivery's own calls keep their order (one at a time, mark-seen before  *)
(* typing-on before the reply before typing-off), go to its own sender and *)
(* answer its own message, whatever the other delivery does in between.    *)
C20_OwnOrderKept ==
    \A r \in Slots :
        LET hc == HandlerCalls(r)
        IN  /\ OneAtATime(hc)
            /\ \A i, j \in 1..Len(hc) :
                  i < j => \/ hc[i].entry < hc[j].entry
                           \/ hc[i].entry = hc[j].entry /\ Rank(hc[i].step) < Rank(hc[j].step)
            /\ \A i \in 1..Len(hc) :
                  /\ hc[i].entry \in TextEntries(r)
                  /\ hc[i].to = SenderOf(r, hc[i].entry)
                  /\ hc[i].step \in {"reply", "igReply"} =>
                        hc[i].payload = OwnReply(r, hc[i].entry)

(* the calls at positions p of the outbound sequence are, in this order,   *)
(* the given steps of the given deliveries                                 *)
InOrder(p, rs, steps) ==
    /\ \A n \in 1..(Len(p) - 1) : p[n] < p[n + 1]
    /\ \A n \in 1..Len(p) : calls[p[n]].req = rs[n] /\ calls[p[n]].step = steps[n]

(* two page deliveries of the same sender were in flight together: the     *)
(* later one's mark-seen and reply lie between the earlier one's typing-on *)
(* and typing-off, and the later delivery was answered first               *)
C20_Witness ==
    /\ conc = 2
    /\ body[1].object = "page" /\ body[2].object = "page"
    /\ SenderOf(1, 1) = SenderOf(2, 1)
    /\ \E a, b \in Slots :
          /\ a # b
          /\ \E p \in [1..5 -> 1..Len(calls)] :
                InOrder(p, <<a, b, b, a, a>>, <<"typingOn", "seen", "reply", "reply", "typingOff">>)

----------------------------------------------------------------------------
(* Properties of the REST facade (checked under SpecApi) *)

(* the send endpoints a server definition has *)
SendEndpoints(v) ==
    {"send-message", "send-image"} \cup (IF v = "enhanced" THEN {"send-button-template"} ELSE {})

(* the request lacks a field its endpoint requires (not given, or empty) *)
MissingField(q) ==
    \/ ~truthy(q.userId)
    \/ ~truthy(q.text)
    \/ q.ep = "send-button-template" /\ q.buttons # "array"

(* the error description of an endpoint's validation *)
MissingText(ep) ==
    CASE ep = "send-message" -> "Missing userId or message"
      [] ep = "send-image" -> "Missing userId or imageUrl"
      [] OTHER -> "Missing userId, text, or buttons array"

(* C13: a REST send request that lacks a required field (the empty body    *)
(* included) is answered with 400 and an error description naming the      *)
(* required fields, and no client operation is invoked and no HTTP request *)
(* issued for it.                                                          *)
C13_MissingField ==
    (rest.pc # "idle" /\ rest.req.ep \in SendEndpoints(variant) /\ MissingField(rest.req)) =>
        /\ rest.pc = "done"
        /\ rest.status = 400
        /\ rest.json.shape = "error"
        /\ rest.json.error = MissingText(rest.req.ep)
        /\ rest.json.received = [userId |-> rest.req.userId, text |-> rest.req.text]
        /\ rest.call = 0
        /\ inv = <<>>
        /\ http = <<>>

(* POST /api/send-message with the empty body has been answered 400 *)
C13_Witness ==
    /\ rest.pc = "done"
    /\ rest.req.ep = "send-message"
    /\ ~rest.req.userId.has /\ ~rest.req.text.has
    /\ rest.status = 400
    /\ inv = <<>>

(* the REST request in flight is a valid POST /api/send-message *)
ValidSendMessage ==
    /\ rest.pc # "idle"
    /\ rest.req.ep = "send-message"
    /\ truthy(rest.req.userId) /\ truthy(rest.req.text)

(* C14: a valid POST /api/send-message invokes the client's text send      *)
(* exactly once, with the request's userId and message, on the platform's  *)
(* client, and one HTTP request is issued for it; when the send succeeds   *)
(* the response is 200 and carries the client's result unchanged under     *)
(* the result key.                                                         *)
C14_SendMessageRoundTrip ==
    ValidSendMessage =>
        /\ Len(inv) = 1 /\ rest.call = 1
        /\ inv[1].op = "sendTextMessage"
        /\ inv[1].client = messengerInstance(rest.req.platform)
        /\ inv[1].args.userId = rest.req.userId.v
        /\ inv[1].args.text = rest.req.text.v
        /\ Len(http) = 1 /\ http[1].inv = 1
        /\ http[1].method = "POST" /\ http[1].path = <<PAGE_ID, "messages">>
        /\ (rest.pc = "done" /\ inv[1].st = "resolved") =>
              /\ rest.status = 200
              /\ rest.json.shape = "result"
              /\ rest.json.result = inv[1].res.data
              /\ rest.json.error = ""

(* a valid send-message has been answered 200 with the second of the two   *)
(* results the client can give                                             *)
C14_Witness ==
    /\ ValidSendMessage
    /\ rest.pc = "done"
    /\ rest.status = 200
    /\ inv[1].st = "resolved"
    /\ inv[1].res.data = "m_AG5Hz2Uq7tuwNEhXfYYKj8mJEM_QPpz5jdHtHaW"
    /\ rest.json.result = "m_AG5Hz2Uq7tuwNEhXfYYKj8mJEM_QPpz5jdHtHaW"

(* the client call behind the REST request in flight has failed *)
ClientFailed == rest.call # 0 /\ inv[rest.call].st = "rejected"

(* C15: whenever the client call behind a REST endpoint fails (transport   *)
(* failure, undecodable body, non-success status or provider error), the   *)
(* endpoint answers 500 with the failure's message and the name of its     *)
(* class, and a 200 is only ever sent for a call that succeeded.           *)
C15_ClientFailureIs500 ==
    /\ ClientFailed =>
          /\ rest.pc = "done"
          /\ rest.status = 500
          /\ rest.json.shape = "error"
          /\ rest.json.error = inv[rest.call].res.message
          /\ rest.json.errorType = inv[rest.call].res.ctor
          /\ rest.json.error # "" /\ rest.json.errorType # ""
    /\ rest.status = 200 => (rest.call # 0 /\ inv[rest.call].st = "resolved")

(* GET /api/conversations has been answered 500 after a non-success status *)
C15_Witness ==
    /\ ClientFailed
    /\ rest.req.ep = "conversations"
    /\ rest.status = 500
    /\ rest.json.error = "HTTP 500: Internal Server Error"

(* the error a failed operation rejects with, as class name and message *)
Rejection(o) == <<clientResult(o).ctor, clientResult(o).message>>

(* C16: when the remote call returns status 200 with a body holding an     *)
(* error object of message M, the client operation rejects with an error   *)
(* whose message is "API Error: " followed by M, which no non-success      *)
(* status and no transport failure produces, and the endpoint that invoked *)
(* the operation answers 500 with that message.                            *)
C16_ProviderError ==
    /\ \A i \in 1..Len(inv) :
          inv[i].out.kind = "error" =>
              /\ inv[i].out.status = 200
              /\ inv[i].st = "rejected"
              /\ ~inv[i].res.ok
              /\ inv[i].res.message = "API Error: " \o inv[i].out.text
              /\ \A o \in Outcomes : o.kind # "error" => Rejection(o) # Rejection(inv[i].out)
    /\ (rest.call # 0 /\ inv[rest.call].out.kind = "error") =>
          /\ rest.pc = "done"
          /\ rest.status = 500
          /\ rest.json.error = "API Error: " \o inv[rest.call].out.text

(* a send-message whose remote call returned 200 with the error message    *)
(* "Invalid token" has been answered                                       *)
C16_Witness ==
    /\ rest.pc = "done"
    /\ rest.req.ep = "send-message"
    /\ rest.call # 0
    /\ inv[rest.call].out = [kind |-> "error", status |-> 200, text |-> "Invalid token"]
    /\ rest.status = 500
    /\ rest.json.error = "API Error: Invalid token"

(* C16 as worded: the rejection carries the provider's message M itself,   *)
(* under a class of its own, and the endpoint answers 500 with M.          *)
C16_Original ==
    /\ \A i \in 1..Len(inv) :
          inv[i].out.kind = "error" =>
              /\ inv[i].st = "rejected"
              /\ inv[i].res.message = inv[i].out.text
              /\ \A o \in Outcomes : o.kind # "error" => clientResult(o).ctor # inv[i].res.ctor
    /\ (rest.call # 0 /\ inv[rest.call].out.kind = "error") =>
          /\ rest.status = 500
          /\ rest.json.error = inv[rest.call].out.text


(* C22: every REST operation that reaches its client call makes it through *)
(* exactly one of the two clients built at start-up: the Messenger client  *)
(* when no platform is given, the Instagram client when the platform is    *)
(* "instagram" (and the Messenger client for every other value).           *)
C22_PlatformDefault ==
    rest.call # 0 =>
        /\ Len(inv) = 1 /\ rest.call = 1
        /\ inv[1].client \in {"messenger", "instagram"}
        /\ ~rest.req.platform.has => inv[1].client = "messenger"
        /\ rest.req.platform = Given("instagram") => inv[1].client = "instagram"
        /\ inv[1].client = "instagram" => rest.req.platform = Given("instagram")

(* a read without platform has gone through the Messenger client and a     *)
(* request was issued for it                                               *)
C22_Witness ==
    /\ rest.req.ep = "conversations"
    /\ ~rest.req.platform.has
    /\ rest.call = 1
    /\ inv[1].client = "messenger"
    /\ inv[1].op = "getConversations"
    /\ rest.pc = "done"

----------------------------------------------------------------------------
(* Properties of the API client (checked under SpecClient) *)

(* C17: every invocation of a client operation hands exactly one request   *)
(* to fetch, the i-th request belonging to the i-th invocation: a failed   *)
(* call is not sent again and an invocation identical to an earlier one is *)
(* not suppressed, so there are as many requests as invocations.           *)
C17_OneRequestPerInvocation ==
    /\ Len(http) = Len(inv)
    /\ \A i \in 1..Len(inv) :
          /\ http[i].inv = i
          /\ http[i].method = opMethod(inv[i].op)
          /\ http[i].path = opPath(inv[i].op, inv[i].args)

(* markAsSeen was invoked twice in a row for the same user, the first call *)
(* has failed, and two requests were issued                                *)
C17_Witness ==
    /\ Len(inv) = 2
    /\ inv[1].op = "markAsSeen" /\ inv[2].op = "markAsSeen"
    /\ inv[1].args = inv[2].args
    /\ inv[1].st = "rejected"
    /\ Len(http) = 2

(* the request carries the access token and the operation's parameters in  *)
(* the place its method calls for, and nothing in the other place          *)
Carries(h, params) ==
    LET all == params \cup {<<"access_token", PAGE_ACCESS_TOKEN>>}
    IN  IF h.method = "GET"
        THEN h.query = all /\ h.body = {}
        ELSE h.body = all /\ h.query = {}

(* C18: every request a client operation hands to fetch carries the        *)
(* configured access token together with the operation's parameters, in    *)
(* the query string of a GET and in the JSON body of a POST.               *)
C18_TokenAndParameters ==
    \A i \in 1..Len(http) :
        Carries(http[i], opParameters(variant, inv[i].client, inv[i].op, inv[i].args))

(* C18 for the client of API version 18.0, which the logged and the basic  *)
(* server run                                                              *)
C18_TokenAndParametersV18 ==
    variant # "enhanced" => C18_TokenAndParameters

(* a POST and a GET have been issued by the client of API version 18.0 *)
C18_WitnessV18 ==
    /\ variant # "enhanced"
    /\ Len(http) = 2
    /\ http[1].method = "POST" /\ http[2].method = "GET"

----------------------------------------------------------------------------
(* Routing of the two surfaces *)

EntryCalls(r, k) == SelectSeq(calls, LAMBDA c : c.req = r /\ c.entry = k)

(* C28: a delivery with object "page" makes outbound calls only through    *)
(* the Messenger client and a delivery with object "instagram" only        *)
(* through the Instagram client; an Instagram event produces at most one   *)
(* outbound call, a text send, and no mark-seen or typing-indicator call.  *)
C28_SurfaceRouting ==
    /\ \A i \in 1..Len(calls) :
          /\ body[calls[i].req].object \in {"page", "instagram"}
          /\ body[calls[i].req].object = "page" => calls[i].client = "messenger"
          /\ body[calls[i].req].object = "instagram" =>
                /\ calls[i].client = "instagram"
                /\ calls[i].op = "sendTextMessage"
                /\ calls[i].payload \in {InstagramGreetingText, InstagramDefaultText}
                /\ calls[i].to = firstEvent(body[calls[i].req].entry[calls[i].entry]).sender
    /\ \A r \in Slots :
          body[r].object = "instagram" =>
              \A k \in 1..Len(body[r].entry) : Len(EntryCalls(r, k)) <= 1

(* an Instagram delivery of two text events was answered after one text   *)
(* send through the Instagram client for each                              *)
C28_Witness ==
    /\ pc[1] = "done"
    /\ body[1].object = "instagram"
    /\ resp[1].status = 200
    /\ TextEntries(1) = {1, 2}
    /\ Len(EntryCalls(1, 1)) = 1
    /\ Len(EntryCalls(1, 2)) = 1
    /\ \A i \in 1..Len(calls) : calls[i].client = "instagram"

----------------------------------------------------------------------------
(* Events without a message *)

(* entries of the delivery in slot r whose first event has no message *)
NullEntries(r) == {k \in EventEntries(r) : body[r].entry[k].messaging[1].message.isNull}

(* the calls for entry k that are not mark-seen or typing calls *)
Sends(r, k) == SelectSeq(calls, LAMBDA c : c.req = r /\ c.entry = k /\ c.step \notin IndicatorSteps)

(* position in `calls` of the one call of entry k at step `step` *)
At(r, k, step) ==
    CHOOSE i \in 1..Len(calls) : calls[i].req = r /\ calls[i].entry = k /\ calls[i].step = step

----------------------------------------------------------------------------
(* Order of the entries of one delivery *)

(* entry k of the delivery in slot r does not decode: it has no messaging  *)
(* list, or its first event has no sender                                  *)
Undecodable(r, k) ==
    \/ ~body[r].entry[k].hasMessaging
    \/ Len(body[r].entry[k].messaging) >= 1 /\ ~body[r].entry[k].messaging[1].hasSender

FirstUndecodable(r) ==
    CHOOSE k \in 1..Len(body[r].entry) :
        Undecodable(r, k) /\ \A j \in 1..(k - 1) : ~Undecodable(r, j)

(* the handler has started on the event of entry k *)
Started(r, k) ==
    IF body[r].object = "page" THEN Len(StepCalls(r, k, {"seen"})) = 1
    ELSE k \in TextEntries(r) => Len(StepCalls(r, k, {"igReply"})) = 1

(* the handler's calls go up the list of entries, one entry at a time: a   *)
(* call for an entry is issued only when every call for the entries before *)
(* it has settled                                                          *)
EntriesInOrder(r) ==
    \A i, j \in 1..Len(calls) :
        (/\ i < j
         /\ calls[i].req = r /\ calls[j].req = r
         /\ calls[i].step # "followup" /\ calls[j].step # "followup") =>
            /\ calls[i].entry <= calls[j].entry
            /\ calls[i].entry < calls[j].entry => calls[i].st = "settled"

(* a delivery with an entry that does not decode is answered 500, no call  *)
(* is made for that entry or a later one, and when the handler stopped at  *)
(* that entry the calls of the entries before it are all still there       *)
StopsAtUndecodable(r) ==
    (body[r].hasEntry /\ ~Decodes(r)) =>
        /\ \A i \in 1..Len(calls) : calls[i].req = r => calls[i].entry < FirstUndecodable(r)
        /\ idx[r] <= FirstUndecodable(r)
        /\ pc[r] = "done" =>
              /\ resp[r] = [status |-> 500, body |-> "Internal Server Error"]
              /\ idx[r] = FirstUndecodable(r) =>
                    \A k \in EventEntries(r) : k < idx[r] => Started(r, k)

(* failed calls of an entry do not keep the handler from the entries that  *)
(* follow: when it has answered, it has started on every event up to the   *)
(* first entry that does not decode                                        *)
FailedCallsDoNotStop(r) ==
    (body[r].hasEntry /\ pc[r] = "done") =>
        \A k \in EventEntries(r) :
            (Decodes(r) \/ k < FirstUndecodable(r)) => Started(r, k)

(* C30: the entries of one delivery are processed in list order, one after *)
(* the other; when entry k does not decode the response is 500, no call is *)
(* made for an entry after k and the calls made for the entries before k   *)
(* stay as they are; an entry whose outbound calls failed does not stop    *)
(* the entries after it from being processed.                              *)
C30_EntriesInOrder ==
    \A r \in Slots :
        body[r].object \in {"page", "instagram"} =>
            /\ EntriesInOrder(r)
            /\ StopsAtUndecodable(r)
            /\ FailedCallsDoNotStop(r)

(* C30 without its last part, in every server definition *)
C30_OrderAndStop ==
    \A r \in Slots :
        body[r].object \in {"page", "instagram"} =>
            EntriesInOrder(r) /\ StopsAtUndecodable(r)

(* C30 for the server definitions that wrap every outbound call *)
C30_EntriesInOrderWrapped == swallows(variant) => C30_EntriesInOrder

(* the mark-seen call of the first entry failed, the handler finished the  *)
(* entry and went on to the second, which did not decode: 500, with the    *)
(* calls of the first entry as they were                                   *)
C30_WitnessWrapped ==
    /\ swallows(variant)
    /\ body[1].object = "page"
    /\ Len(body[1].entry) = 2
    /\ 1 \in EventEntries(1)
    /\ Undecodable(1, 2)
    /\ pc[1] = "done"
    /\ resp[1].status = 500
    /\ "seen" \in failed[1]
    /\ Len(StepCalls(1, 1, {"typingOff"})) = 1
    /\ Len(EntryCalls(1, 2)) = 0

====
